---- MODULE Spec2Model ----
(***************************************************************************)
(* Netfliz: the tenant portal (catalog aggregation, continue-watching      *)
(* ranking, series grouping), its cache, and the catalog / progress write  *)
(* paths, as a state machine over the Django models of stream/models.py.   *)
(***************************************************************************)
EXTENDS Integers, Sequences, FiniteSets, TLC

VARIABLES
    tenants,        \* Tenant rows: tenant id -> [slug, is_active, access_end_date]
    videos,         \* Video rows: pk -> record
    series,         \* Series rows: pk -> record
    progress,       \* VideoProgress rows: set of [id, tenant, video, position, updated_at]
    nextVideoId,    \* auto-increment pk of Video
    nextSeriesId,   \* auto-increment pk of Series
    nextProgressId, \* auto-increment pk of VideoProgress
    now,            \* timezone.now() / the cache's clock, in seconds
    cache,          \* django.core.cache: key -> [payload, expires] (NoEntry when absent)
    pc,             \* position of each request: in get_queryset, or in the progress POST
    req,            \* locals of each request (tenant, cache_key, payload, ..., or the
                    \* request of an endpoint with the status of its response)
    hist,           \* history: for each payload held (by a request or a cache key),
                    \* when it was built and when the data it was built from changed
    lastWrite,      \* history: per cache key, the request whose cache.set came last
    replaced        \* history: per cache key, an entry that was overwritten within its TTL

vars == <<tenants, videos, series, progress, nextVideoId, nextSeriesId,
          nextProgressId, now, cache, pc, req, hist, lastWrite, replaced>>

dbVars == <<tenants, videos, series, progress, nextVideoId, nextSeriesId, nextProgressId>>
portalVars == <<cache, pc, req, lastWrite, replaced>>

----------------------------------------------------------------------------
(* Bounds of the model *)

MaxVideos == 2          \* Video rows ever created in the catalog specification
MaxProgressRows == 2    \* VideoProgress rows ever created where rows are also deleted
MaxCacheVideos == 1     \* Video rows ever created in the staleness specification
MaxPeriods == 1         \* the clock runs over this many cache timeouts
MaxStoreLag == 2        \* seconds a worker may take from its build to its cache.set
MaxRankVideos == 22     \* Video rows of the ranking specification
MaxRankTicks == 2       \* seconds the clock advances in the ranking specification
MaxSeriesEpisodes == 3  \* episodes of the series in the episode specification
MaxExpiredSeconds == 1  \* seconds the clock runs past the end of a subscription

(* Program constants *)

CACHE_TIMEOUT == 60 * 15
CONTINUE_LIMIT == 20

NoTenant == "none"      \* request.user has no tenant_profile
NULL == 0               \* a NULL foreign key / an empty optional number
NoEntry == [payload |-> <<>>, expires |-> -1]

CATEGORY_MOVIE == "movie"
CATEGORY_SERIES == "series"
CATEGORY_TV == "tv"
Categories == {CATEGORY_MOVIE, CATEGORY_SERIES, CATEGORY_TV}

TenantIds == {"alpha", "beta", "gamma"}
StaffTenants == {"alpha"}       \* tenant profiles of staff users (owners)
SeriesIds == {1}                \* primary keys a Series row can get

----------------------------------------------------------------------------
(* Helpers *)

Min(S) == CHOOSE x \in S : \A y \in S : x <= y

Range(s) == {s[i] : i \in 1..Len(s)}

\* Lexicographic <= on integer tuples of equal length (Python tuple comparison).
LexLeq(a, b) ==
    LET d == {i \in 1..Len(a) : a[i] # b[i]}
    IN  d = {} \/ a[Min(d)] < b[Min(d)]

\* list.sort / sorted: ascending by key, stable.
RECURSIVE StableSort(_, _)
StableSort(s, key) ==
    IF Len(s) <= 1 THEN s
    ELSE LET rest == StableSort(SubSeq(s, 1, Len(s) - 1), key)
             x == s[Len(s)]
             k == Cardinality({i \in 1..Len(rest) : LexLeq(key[rest[i]], key[x])})
         IN  SubSeq(rest, 1, k) \o <<x>> \o SubSeq(rest, k + 1, Len(rest))

\* The rows of a result set in the ORDER BY of the query (keys are made total
\* by the primary key, the order the database returns equal rows in).
RECURSIVE OrderBy(_, _)
OrderBy(S, key) ==
    IF S = {} THEN <<>>
    ELSE LET x == CHOOSE x \in S : \A y \in S : LexLeq(key[x], key[y])
         IN  <<x>> \o OrderBy(S \ {x}, key)

\* seq[:n]
Take(s, n) == SubSeq(s, 1, IF Len(s) < n THEN Len(s) ELSE n)

----------------------------------------------------------------------------
(* models.py *)

\* Tenant.is_subscription_active
IsSubscriptionActive(t) ==
    tenants[t].access_end_date = NULL \/ tenants[t].access_end_date >= now

\* Video.is_visible_to
IsVisibleTo(v, t) == ~(\E b \in videos[v].blocked_tenants : b = t)

\* VideoProgress.objects.filter(tenant=t, video=v)
ProgressRows(t, v) == {r \in progress : r.tenant = t /\ r.video = v}

----------------------------------------------------------------------------
(* views.py: the portal aggregator *)

\* format_duration_label: "M:SS" as <<minutes, seconds>>
FormatDurationLabel(seconds) ==
    LET total_seconds == IF seconds < 0 THEN 0 ELSE seconds
    IN  <<total_seconds \div 60, total_seconds % 60>>

\* TenantPortalView._get_cache_key
GetCacheKey(tenant) ==
    IF tenant # NoTenant /\ tenants[tenant].slug # "" THEN tenants[tenant].slug
    ELSE "anonymous"

\* (mutant) the queryset without the blocklist filter
PortalQuerysetUnfiltered(tenant) == {v \in DOMAIN videos : videos[v].is_public}

\* The queryset of _build_portal_payload: public videos the tenant is not blocked from.
PortalQueryset(tenant) ==
    {v \in DOMAIN videos :
        /\ videos[v].is_public
        /\ IF tenant # NoTenant
           THEN videos[v].blocked_tenants = {} \/ ~(tenant \in videos[v].blocked_tenants)
           ELSE videos[v].blocked_tenants = {}}

\* list(queryset): Video.Meta.ordering = ("-created_at",)
AllVideos(tenant) ==
    LET S == PortalQueryset(tenant)
    IN  OrderBy(S, [v \in S |-> <<0 - videos[v].created_at, 0 - v>>])

\* VideoProgress.objects.filter(tenant=tenant, video__in=queryset)
ProgressEntries(tenant) ==
    IF tenant = NoTenant THEN <<>>
    ELSE LET S == {r \in progress : r.tenant = tenant /\ r.video \in PortalQueryset(tenant)}
         IN  OrderBy(S, [r \in S |-> <<r.id>>])

\* progress_map = {progress.video_id: progress.position ...} (a later row wins)
ProgressMap(entries) ==
    [v \in {entries[i].video : i \in 1..Len(entries)} |->
        LET last == CHOOSE i \in 1..Len(entries) :
                        /\ entries[i].video = v
                        /\ \A j \in 1..Len(entries) : entries[j].video = v => j <= i
        IN  entries[last].position]

\* progress_map.get(video.id, 0)
MapGet(progress_map, v) == IF v \in DOMAIN progress_map THEN progress_map[v] ELSE 0

\* (mutant) the continue list without the [:20] slice
ContinueVideosUncapped(entries) ==
    LET IsStarted(e) == e.position > 0
        continue_entries == SelectSeq(entries, IsStarted)
        sorted == StableSort(continue_entries,
                             [e \in Range(continue_entries) |-> <<0 - e.updated_at>>])
    IN  [i \in 1..Len(sorted) |-> sorted[i].video]

\* continue_entries: position > 0, sorted by updated_at descending (stable), first 20
ContinueVideos(entries) ==
    LET IsStarted(e) == e.position > 0
        continue_entries == SelectSeq(entries, IsStarted)
        sorted == StableSort(continue_entries,
                             [e \in Range(continue_entries) |-> <<0 - e.updated_at>>])
        capped == Take(sorted, CONTINUE_LIMIT)
    IN  [i \in 1..Len(capped) |-> capped[i].video]

ContinueMovies(continue_videos) ==
    LET Keep(v) == videos[v].series = NULL /\ videos[v].category = CATEGORY_MOVIE
    IN  SelectSeq(continue_videos, Keep)

ContinueSeries(continue_videos) ==
    LET Keep(v) == videos[v].series # NULL
    IN  SelectSeq(continue_videos, Keep)

\* (mutant) only standalone videos count as TV channels
ContinueTvStandalone(continue_videos) ==
    LET Keep(v) == videos[v].series = NULL /\ videos[v].category = CATEGORY_TV
    IN  SelectSeq(continue_videos, Keep)

ContinueTv(continue_videos) ==
    LET Keep(v) == videos[v].category = CATEGORY_TV
    IN  SelectSeq(continue_videos, Keep)

\* (mutant) series_qs without the is_active filter
SeriesModelsAnyActive(tenant, all_videos) ==
    IF tenant = NoTenant THEN <<>>
    ELSE LET series_ids == {videos[v].series : v \in Range(all_videos)} \ {NULL}
             S == {s \in DOMAIN series : s \in series_ids}
         IN  OrderBy(S, [s \in S |-> <<series[s].title, s>>])

\* series_qs of _build_series_data: the active Series among those of the
\* eligible episodes, ordered by title
SeriesModels(tenant, all_videos) ==
    IF tenant = NoTenant THEN <<>>
    ELSE LET series_ids == {videos[v].series : v \in Range(all_videos)} \ {NULL}
             S == {s \in DOMAIN series : s \in series_ids /\ series[s].is_active}
         IN  OrderBy(S, [s \in S |-> <<series[s].title, s>>])

\* (mutant) episode entries numbered from 0
EpisodeEntriesZeroBased(s, all_videos, progress_map) ==
    LET IsEpisode(v) == videos[v].series = s
        episodes == SelectSeq(all_videos, IsEpisode)
        Key(v) == << IF videos[v].season_number # NULL THEN videos[v].season_number ELSE 1,
                     IF videos[v].episode_number # NULL THEN videos[v].episode_number ELSE 0,
                     videos[v].created_at >>
        episodes_sorted == StableSort(episodes, [v \in Range(episodes) |-> Key(v)])
    IN  [idx \in 1..Len(episodes_sorted) |->
            LET v == episodes_sorted[idx]
                resume_position == MapGet(progress_map, v)
            IN  [ video |-> v,
                  season_number |-> IF videos[v].season_number # NULL
                                    THEN videos[v].season_number ELSE 1,
                  episode_number |-> IF videos[v].episode_number # NULL
                                     THEN videos[v].episode_number ELSE idx - 1,
                  resume_position |-> resume_position,
                  resume_label |-> IF resume_position > 0
                                   THEN FormatDurationLabel(resume_position)
                                   ELSE <<>> ]]

\* One series' episode entries: sorted, then numbered
EpisodeEntries(s, all_videos, progress_map) ==
    LET IsEpisode(v) == videos[v].series = s
        episodes == SelectSeq(all_videos, IsEpisode)
        Key(v) == << IF videos[v].season_number # NULL THEN videos[v].season_number ELSE 1,
                     IF videos[v].episode_number # NULL THEN videos[v].episode_number ELSE 0,
                     videos[v].created_at >>
        episodes_sorted == StableSort(episodes, [v \in Range(episodes) |-> Key(v)])
    IN  [idx \in 1..Len(episodes_sorted) |->
            LET v == episodes_sorted[idx]
                resume_position == MapGet(progress_map, v)
            IN  [ video |-> v,
                  season_number |-> IF videos[v].season_number # NULL
                                    THEN videos[v].season_number ELSE 1,
                  episode_number |-> IF videos[v].episode_number # NULL
                                     THEN videos[v].episode_number ELSE idx,
                  resume_position |-> resume_position,
                  resume_label |-> IF resume_position > 0
                                   THEN FormatDurationLabel(resume_position)
                                   ELSE <<>> ]]

\* TenantPortalView._build_series_data: the series payload
SeriesPayload(tenant, all_videos, progress_map) ==
    LET series_models == SeriesModels(tenant, all_videos)
    IN  [i \in 1..Len(series_models) |->
            LET s == series_models[i]
                episode_entries == EpisodeEntries(s, all_videos, progress_map)
                count == Cardinality({v \in DOMAIN videos : videos[v].series = s})
            IN  [ series |-> s,
                  title |-> series[s].title,
                  episode_count |-> IF count # 0 THEN count ELSE Len(episode_entries),
                  seasons |-> {episode_entries[j].season_number :
                                    j \in 1..Len(episode_entries)},
                  episodes |-> episode_entries ]]

GenreKey(v) == IF videos[v].genre # "" THEN videos[v].genre ELSE "outro"

\* TenantPortalView._build_portal_payload
BuildPortalPayload(tenant) ==
    LET all_videos == AllVideos(tenant)
        progress_entries == ProgressEntries(tenant)
        progress_map == ProgressMap(progress_entries)
        continue_videos == ContinueVideos(progress_entries)
        IsStandalone(v) == videos[v].series = NULL
        standalone_videos == SelectSeq(all_videos, IsStandalone)
        IsTv(v) == videos[v].category = CATEGORY_TV
        IsMovie(v) == videos[v].category = CATEGORY_MOVIE
        movie_videos == SelectSeq(standalone_videos, IsMovie)
    IN  [ progress_map |-> progress_map,
          continue_videos |-> continue_videos,
          continue_movies |-> ContinueMovies(continue_videos),
          continue_series |-> ContinueSeries(continue_videos),
          continue_tv |-> ContinueTv(continue_videos),
          series_list |-> SeriesModels(tenant, all_videos),
          series_payload |-> SeriesPayload(tenant, all_videos, progress_map),
          tv_channels |-> SelectSeq(standalone_videos, IsTv),
          movie_videos |-> movie_videos,
          videos_by_genre |->
              [g \in {GenreKey(v) : v \in Range(movie_videos)} |->
                  LET InGenre(v) == GenreKey(v) = g
                  IN  SelectSeq(movie_videos, InGenre)] ]

\* Every video a payload lists anywhere.
PayloadVideos(p) ==
    Range(p.movie_videos) \cup Range(p.tv_channels) \cup Range(p.continue_videos)
    \cup Range(p.continue_movies) \cup Range(p.continue_series) \cup Range(p.continue_tv)
    \cup UNION {Range(p.videos_by_genre[g]) : g \in DOMAIN p.videos_by_genre}
    \cup UNION {{p.series_payload[i].episodes[j].video :
                    j \in 1..Len(p.series_payload[i].episodes)} :
                i \in 1..Len(p.series_payload)}

----------------------------------------------------------------------------
(* Initial state: the owner's tenant (a staff user) and one viewer tenant,  *)
(* an empty catalog, an empty cache, every portal request idle.             *)

SubscriptionSeconds == 30 * 86400   \* create_tenant --duration default, tests.py setUp

Requests == {"r1", "r2"}

CacheKeys == {"alpha", "beta", "gamma", "anonymous"}

IdleReq == [tenant |-> NoTenant, cache_key |-> "", payload |-> <<>>, hit |-> FALSE, t |-> 0]

\* History of a payload: builtAt, the time of its build (-1: no payload held);
\* storedAt, the time of the cache.set that stored it (-1: not stored); staleAt, the time of the first change of the catalog or the progress
\* records after its build (-1: none yet).
NoHist == [builtAt |-> -1, storedAt |-> -1, staleAt |-> -1]

\* History kept by every write of the catalog or the progress records: the
\* payloads built from the data as it was are out of date from now on.
MarkStale ==
    hist' = [h \in DOMAIN hist |->
                IF /\ <<tenants, videos, series, progress>>' # <<tenants, videos, series, progress>>
                   /\ hist[h].builtAt # -1 /\ hist[h].staleAt = -1
                THEN [hist[h] EXCEPT !.staleAt = now]
                ELSE hist[h]]

\* The owner's tenant (get_or_create_owner_tenant: no end date) and a subscriber
InitTenants ==
    [t \in {"alpha", "beta"} |->
        [slug |-> t, is_active |-> TRUE,
         access_end_date |-> IF t = "alpha" THEN NULL ELSE SubscriptionSeconds]]

Init ==
    /\ tenants = InitTenants
    /\ videos = <<>>
    /\ series = <<>>
    /\ progress = {}
    /\ nextVideoId = 1
    /\ nextSeriesId = 1
    /\ nextProgressId = 1
    /\ now = 0
    /\ cache = [k \in CacheKeys |-> NoEntry]
    /\ pc = [r \in Requests |-> "idle"]
    /\ req = [r \in Requests |-> IdleReq]
    /\ hist = [h \in Requests \cup CacheKeys |-> NoHist]
    /\ lastWrite = [k \in CacheKeys |-> "none"]
    /\ replaced = [k \in CacheKeys |-> NoEntry]

\* f restricted to the keys other than k
Without(f, k) == [x \in DOMAIN f \ {k} |-> f[x]]

----------------------------------------------------------------------------
(* forms.py: VideoForm *)

\* VideoForm.is_valid: the series choice is one of the owner's active series,
\* the hidden-for tenants are active tenants, the numbers are >= 1 or empty.
VideoFormValid(owner, f) ==
    /\ f.series = NULL
        \/ (f.series \in DOMAIN series /\ series[f.series].tenant = owner
            /\ series[f.series].is_active)
    /\ f.category \in Categories
    /\ \A b \in f.blocked_tenants : b \in DOMAIN tenants /\ tenants[b].is_active
    /\ f.season_number >= 0
    /\ f.episode_number >= 0

\* VideoForm.clean: a series forces the category
CleanCategory(f) == IF f.series # NULL THEN CATEGORY_SERIES ELSE f.category

----------------------------------------------------------------------------
(* Catalog write paths *)

\* OwnerDashboardView.post (video branch)
OwnerCreateVideo(owner, f) ==
    /\ owner \in StaffTenants /\ owner \in DOMAIN tenants
    /\ nextVideoId <= MaxVideos
    /\ VideoFormValid(owner, f)
    /\ videos' = videos @@ (nextVideoId :>
            [ tenant |-> owner,
              is_public |-> TRUE,
              blocked_tenants |-> f.blocked_tenants,
              series |-> f.series,
              category |-> CleanCategory(f),
              season_number |-> f.season_number,
              episode_number |-> f.episode_number,
              genre |-> f.genre,
              created_at |-> now ])
    /\ nextVideoId' = nextVideoId + 1
    /\ UNCHANGED <<tenants, series, progress, nextSeriesId, nextProgressId, now>>
    /\ UNCHANGED portalVars
    /\ MarkStale

\* OwnerVideoEditView (UpdateView with VideoForm), guarded by OwnerVideoPermissionMixin
OwnerEditVideo(owner, v, f) ==
    /\ owner \in StaffTenants /\ owner \in DOMAIN tenants
    /\ v \in DOMAIN videos
    /\ videos[v].tenant = owner
    /\ VideoFormValid(owner, f)
    /\ videos' = [videos EXCEPT ![v] =
            [ @ EXCEPT !.blocked_tenants = f.blocked_tenants,
                       !.series = f.series,
                       !.category = CleanCategory(f),
                       !.season_number = f.season_number,
                       !.episode_number = f.episode_number,
                       !.genre = f.genre ]]
    /\ UNCHANGED <<tenants, series, progress, nextVideoId, nextSeriesId, nextProgressId, now>>
    /\ UNCHANGED portalVars
    /\ MarkStale

\* OwnerVideoDeleteView: the video goes, and its progress rows with it (CASCADE)
OwnerDeleteVideo(owner, v) ==
    /\ owner \in StaffTenants /\ owner \in DOMAIN tenants
    /\ v \in DOMAIN videos
    /\ videos[v].tenant = owner
    /\ videos' = Without(videos, v)
    /\ progress' = {r \in progress : r.video # v}
    /\ UNCHANGED <<tenants, series, nextVideoId, nextSeriesId, nextProgressId, now>>
    /\ UNCHANGED portalVars
    /\ MarkStale

\* admin.py VideoAdmin (a plain ModelAdmin): the change form saves every
\* editable field as submitted; the model has no clean() or save() of its own.
AdminSaveVideo(v, f) ==
    /\ v \in DOMAIN videos
    /\ f.tenant \in DOMAIN tenants
    /\ f.series = NULL \/ f.series \in DOMAIN series
    /\ f.category \in Categories
    /\ f.blocked_tenants \subseteq DOMAIN tenants
    /\ videos' = [videos EXCEPT ![v] =
            [ @ EXCEPT !.tenant = f.tenant,
                       !.is_public = f.is_public,
                       !.blocked_tenants = f.blocked_tenants,
                       !.series = f.series,
                       !.category = f.category,
                       !.season_number = f.season_number,
                       !.episode_number = f.episode_number,
                       !.genre = f.genre ]]
    /\ UNCHANGED <<tenants, series, progress, nextVideoId, nextSeriesId, nextProgressId, now>>
    /\ UNCHANGED portalVars
    /\ MarkStale

\* create_tenant command: a new tenant, and a sample video when a title and a
\* URL are given (Video.objects.create with the model's defaults)
CreateTenantCommand(t, sample, title) ==
    /\ t \in TenantIds \ DOMAIN tenants
    /\ tenants' = tenants @@ (t :> [slug |-> t, is_active |-> TRUE,
                                    access_end_date |-> now + SubscriptionSeconds])
    /\ IF sample
       THEN /\ nextVideoId <= MaxVideos
            /\ videos' = videos @@ (nextVideoId :>
                    [ tenant |-> t,
                      is_public |-> TRUE,
                      blocked_tenants |-> {},
                      series |-> NULL,
                      category |-> CATEGORY_MOVIE,
                      season_number |-> NULL,
                      episode_number |-> NULL,
                      genre |-> "",
                      created_at |-> now,
                      slug |-> title ])     \* slugify(title), the title a slug already
            /\ nextVideoId' = nextVideoId + 1
       ELSE UNCHANGED <<videos, nextVideoId>>
    /\ UNCHANGED <<series, progress, nextSeriesId, nextProgressId, now>>
    /\ UNCHANGED portalVars
    /\ MarkStale

\* OwnerDashboardView.post (series-submit branch), SeriesForm
OwnerCreateSeries(owner, title, is_active) ==
    /\ owner \in StaffTenants /\ owner \in DOMAIN tenants
    /\ nextSeriesId \in SeriesIds
    /\ series' = series @@ (nextSeriesId :>
            [tenant |-> owner, title |-> title, is_active |-> is_active, created_at |-> now])
    /\ nextSeriesId' = nextSeriesId + 1
    /\ UNCHANGED <<tenants, videos, progress, nextVideoId, nextProgressId, now>>
    /\ UNCHANGED portalVars
    /\ MarkStale

\* OwnerSeriesDeleteView (urls.py owner-series-delete): Video.series is
\* on_delete=SET_NULL, so the episodes stay, unlinked, with their stored category
OwnerDeleteSeries(owner, s) ==
    /\ owner \in StaffTenants /\ owner \in DOMAIN tenants
    /\ s \in DOMAIN series
    /\ series[s].tenant = owner
    /\ series' = Without(series, s)
    /\ videos' = [v \in DOMAIN videos |->
                    IF videos[v].series = s THEN [videos[v] EXCEPT !.series = NULL]
                    ELSE videos[v]]
    /\ UNCHANGED <<tenants, progress, nextVideoId, nextSeriesId, nextProgressId, now>>
    /\ UNCHANGED portalVars
    /\ MarkStale

----------------------------------------------------------------------------
(* Progress write paths *)

\* (mutant) a lookup that does not look at the end of the subscription
GetTenantFromSlugIgnoringExpiry(slug) ==
    LET found == {t \in DOMAIN tenants : tenants[t].slug = slug /\ tenants[t].is_active}
    IN  IF found = {} THEN NoTenant ELSE CHOOSE t \in found : TRUE

\* get_tenant_from_slug: the tenant, or NoTenant for Http404
GetTenantFromSlug(slug) ==
    LET found == {t \in DOMAIN tenants : tenants[t].slug = slug /\ tenants[t].is_active}
    IN  IF found = {} THEN NoTenant
        ELSE LET tenant == CHOOSE t \in found : TRUE
             IN  IF tenants[tenant].access_end_date # NULL
                    /\ tenants[tenant].access_end_date < now
                 THEN NoTenant ELSE tenant

\* SubscriptionCheckMiddleware._should_block for a path outside allowed_paths
ShouldBlock(user_tenant) ==
    /\ user_tenant # NoTenant
    /\ ~IsSubscriptionActive(user_tenant)

\* (mutant) no clamp
ClampIdentity(position) == position

\* max(0.0, position)
Clamp(position) == IF position < 0 THEN 0 ELSE position

\* VideoProgressView.post, the path that saves: position = max(0.0, position),
\* get_or_create on (tenant, video), save(position, updated_at)
VideoProgressPost(slug, user_tenant, v, posted) ==
    /\ ~ShouldBlock(user_tenant)
    /\ GetTenantFromSlug(slug) # NoTenant
    /\ user_tenant = GetTenantFromSlug(slug)
    /\ v \in DOMAIN videos
    /\ IsVisibleTo(v, user_tenant)
    /\ LET position == Clamp(posted)
           rows == ProgressRows(user_tenant, v)
       IN  IF rows = {}
           THEN /\ progress' = progress \cup
                        {[id |-> nextProgressId, tenant |-> user_tenant, video |-> v,
                          position |-> position, updated_at |-> now]}
                /\ nextProgressId' = nextProgressId + 1
           ELSE /\ Cardinality(rows) = 1
                /\ progress' = (progress \ rows) \cup
                        {[r EXCEPT !.position = position, !.updated_at = now] : r \in rows}
                /\ UNCHANGED nextProgressId
    /\ UNCHANGED <<tenants, videos, series, nextVideoId, nextSeriesId, now>>
    /\ UNCHANGED portalVars
    /\ MarkStale

\* (mutant) a reset that also evicts the tenant's portal cache entry
ResetContinueInvalidating(user_tenant, v) ==
    /\ ~ShouldBlock(user_tenant)
    /\ user_tenant # NoTenant /\ user_tenant \in DOMAIN tenants
    /\ v \in DOMAIN videos
    /\ videos[v].is_public
    /\ IsVisibleTo(v, user_tenant)
    /\ progress' = progress \ ProgressRows(user_tenant, v)
    /\ cache' = [cache EXCEPT ![tenants[user_tenant].slug] = NoEntry]
    /\ UNCHANGED <<tenants, videos, series, nextVideoId, nextSeriesId, nextProgressId, now>>
    /\ UNCHANGED <<pc, req, lastWrite, replaced>>
    /\ MarkStale

\* ResetContinueView.post, past its checks: the (tenant, video) rows are deleted
ResetContinue(user_tenant, v) ==
    /\ ~ShouldBlock(user_tenant)
    /\ user_tenant # NoTenant /\ user_tenant \in DOMAIN tenants
    /\ v \in DOMAIN videos
    /\ videos[v].is_public
    /\ IsVisibleTo(v, user_tenant)
    /\ progress' = progress \ ProgressRows(user_tenant, v)
    /\ UNCHANGED <<tenants, videos, series, nextVideoId, nextSeriesId, nextProgressId, now>>
    /\ UNCHANGED portalVars
    /\ MarkStale

\* The clock advances by d seconds
Tick(d) ==
    /\ now' = now + d
    /\ UNCHANGED dbVars
    /\ UNCHANGED portalVars
    /\ UNCHANGED hist

----------------------------------------------------------------------------
(* Requests through SubscriptionCheckMiddleware and the views.  A request   *)
(* slot r holds one request: pc[r] is "idle", a step of the progress POST   *)
(* ("post_get", "post_create", "post_reget", "post_save") or "replied",     *)
(* and req[r] is the request with the status of its response.               *)

AnonymousUser == "anon"     \* request.user.is_authenticated is False

\* middleware.py: SubscriptionCheckMiddleware.allowed_paths
AllowedPaths == {"/login/", "/logout/", "/support/", "/subscription-expired/"}

\* urls.py: the routes (their slug and pk converters left out)
ProgressPath == "/tenant/watch/progress/"
WatchPath == "/tenant/watch/"
HomePath == "/tenant/"
ResetPath == "/portal/reset/"
TvPath == "/portal/tv-channel/stream/"
HeartbeatPath == "/portal/heartbeat/"
SupportPath == "/support/"
ExpiredPath == "/subscription-expired/"

\* (mutant) a middleware that lets every request through
ShouldBlockRequestNever(user, path) == FALSE

\* SubscriptionCheckMiddleware._should_block
ShouldBlockRequest(user, path) ==
    /\ user # AnonymousUser
    /\ ShouldBlock(user)
    /\ path \notin AllowedPaths

\* Video.slug; a video saved without one in this model has a slug of its own
VideoSlug(v) ==
    IF "slug" \in DOMAIN videos[v] THEN videos[v].slug ELSE ToString(v)

\* Video.objects.filter(slug=video_slug)
VideosBySlug(video_slug) == {v \in DOMAIN videos : VideoSlug(v) = video_slug}

\* get_object_or_404 over a queryset: Http404 on no row, MultipleObjectsReturned
\* (an unhandled error) on several, the row otherwise
GetObjectOr404(found) ==
    IF found = {} THEN "404"
    ELSE IF Cardinality(found) > 1 THEN "500"
    ELSE "ok"

\* (mutant) a tenant check that lets every caller through
TenantMismatchNever(user_tenant, tenant) == FALSE

\* VideoProgressView.post: user_tenant != tenant
TenantMismatch(user_tenant, tenant) == user_tenant # tenant

\* A request body: its encoding, the shape of the document and the value of
\* "position" ("missing", "null", "text" for a non-numeric string, "array" for a
\* JSON array, "number" with its value)
JsonBody(shape, kind, value) ==
    [content_type |-> "application/json", shape |-> shape, kind |-> kind, value |-> value]

FormBody(kind, value) ==
    [content_type |-> "form", shape |-> "form", kind |-> kind, value |-> value]

\* VideoProgressView.post, the position of the payload: ok with the position,
\* or not ok when an exception leaves the view
ParsePosition(body) ==
    IF body.content_type = "application/json"
    THEN \* json.loads raises JSONDecodeError (caught); payload.get on a document
         \* that is no object raises AttributeError, float(None) and float([])
         \* raise TypeError (neither caught); float("abc") raises ValueError (caught)
         IF body.shape = "invalid" THEN [ok |-> TRUE, position |-> 0]
         ELSE IF body.shape # "object" THEN [ok |-> FALSE, position |-> 0]
         ELSE IF body.kind = "missing" THEN [ok |-> TRUE, position |-> 0]
         ELSE IF body.kind \in {"null", "array"} THEN [ok |-> FALSE, position |-> 0]
         ELSE IF body.kind = "text" THEN [ok |-> TRUE, position |-> 0]
         ELSE [ok |-> TRUE, position |-> body.value]
    ELSE \* request.POST.get returns a string or the default 0.0; ValueError
         \* and TypeError are caught
         IF body.kind = "number" THEN [ok |-> TRUE, position |-> body.value]
         ELSE [ok |-> TRUE, position |-> 0]

NewRequest(kind, user, path, slug, video_slug, body) ==
    [kind |-> kind, user |-> user, path |-> path, slug |-> slug,
     video_slug |-> video_slug, body |-> body,
     tenant |-> NoTenant, video |-> NULL, position |-> 0, row |-> NULL,
     status |-> "", fetched |-> FALSE]

NoBody == FormBody("missing", 0)

\* The response leaves: nothing is written
Reply(r, q, status) ==
    /\ pc' = [pc EXCEPT ![r] = "replied"]
    /\ req' = [req EXCEPT ![r] = [q EXCEPT !.status = status]]
    /\ UNCHANGED <<dbVars, now, cache, lastWrite, replaced, hist>>

\* VideoProgressView.post up to position = max(0.0, position): the middleware,
\* LoginRequiredMixin, the tenant of the slug, the caller's tenant, the video,
\* its blocklist, the payload
PostBegin(r, user, slug, video_slug, body) ==
    /\ pc[r] = "idle"
    /\ LET q == NewRequest("progress", user, ProgressPath, slug, video_slug, body)
           tenant == GetTenantFromSlug(slug)
           found == VideosBySlug(video_slug)
           video == CHOOSE v \in found : TRUE
           parsed == ParsePosition(body)
       IN  IF ShouldBlockRequest(user, ProgressPath)
           THEN Reply(r, q, "302:subscription-expired")
           ELSE IF user = AnonymousUser THEN Reply(r, q, "302:login")
           ELSE IF tenant = NoTenant THEN Reply(r, q, "404")
           ELSE IF TenantMismatch(user, tenant) THEN Reply(r, q, "403")
           ELSE IF GetObjectOr404(found) # "ok" THEN Reply(r, q, GetObjectOr404(found))
           ELSE IF ~IsVisibleTo(video, tenant) THEN Reply(r, q, "404")
           ELSE IF ~parsed.ok THEN Reply(r, q, "500")
           ELSE /\ pc' = [pc EXCEPT ![r] = "post_get"]
                /\ req' = [req EXCEPT ![r] =
                        [q EXCEPT !.tenant = tenant, !.video = video,
                                  !.position = Clamp(parsed.position)]]
                /\ UNCHANGED <<dbVars, now, cache, lastWrite, replaced, hist>>

\* get_or_create, its first query: self.get(tenant=tenant, video=video)
PostGet(r) ==
    /\ pc[r] = "post_get"
    /\ LET rows == ProgressRows(req[r].tenant, req[r].video)
       IN  IF rows # {}
           THEN /\ pc' = [pc EXCEPT ![r] = "post_save"]
                /\ req' = [req EXCEPT ![r].row = (CHOOSE row \in rows : TRUE).id]
           ELSE /\ pc' = [pc EXCEPT ![r] = "post_create"]
                /\ UNCHANGED req
    /\ UNCHANGED <<dbVars, now, cache, lastWrite, replaced, hist>>

\* (mutant) an INSERT into a table without the unique constraint
PostCreateNoConstraint(r) ==
    /\ pc[r] = "post_create"
    /\ progress' = progress \cup
            {[id |-> nextProgressId, tenant |-> req[r].tenant, video |-> req[r].video,
              position |-> 0, updated_at |-> now]}
    /\ nextProgressId' = nextProgressId + 1
    /\ pc' = [pc EXCEPT ![r] = "post_save"]
    /\ req' = [req EXCEPT ![r].row = nextProgressId]
    /\ UNCHANGED <<tenants, videos, series, nextVideoId, nextSeriesId, now>>
    /\ UNCHANGED <<cache, lastWrite, replaced>>
    /\ MarkStale

\* get_or_create, its INSERT under unique_together (tenant, video): a row with
\* the default position, or IntegrityError when the pair has a row by now
PostCreate(r) ==
    /\ pc[r] = "post_create"
    /\ IF ProgressRows(req[r].tenant, req[r].video) # {}
       THEN /\ pc' = [pc EXCEPT ![r] = "post_reget"]
            /\ UNCHANGED <<req, progress, nextProgressId>>
       ELSE /\ progress' = progress \cup
                    {[id |-> nextProgressId, tenant |-> req[r].tenant,
                      video |-> req[r].video, position |-> 0, updated_at |-> now]}
            /\ nextProgressId' = nextProgressId + 1
            /\ pc' = [pc EXCEPT ![r] = "post_save"]
            /\ req' = [req EXCEPT ![r].row = nextProgressId]
    /\ UNCHANGED <<tenants, videos, series, nextVideoId, nextSeriesId, now>>
    /\ UNCHANGED <<cache, lastWrite, replaced>>
    /\ MarkStale

\* get_or_create after IntegrityError: self.get again, and the IntegrityError
\* raised again when the row is gone
PostReget(r) ==
    /\ pc[r] = "post_reget"
    /\ LET rows == ProgressRows(req[r].tenant, req[r].video)
       IN  IF rows # {}
           THEN /\ pc' = [pc EXCEPT ![r] = "post_save"]
                /\ req' = [req EXCEPT ![r].row = (CHOOSE row \in rows : TRUE).id]
           ELSE /\ pc' = [pc EXCEPT ![r] = "replied"]
                /\ req' = [req EXCEPT ![r].status = "500"]
    /\ UNCHANGED <<dbVars, now, cache, lastWrite, replaced, hist>>

\* progress.save(update_fields=["position", "updated_at"]): an UPDATE of the row
\* by primary key, DatabaseError when it updates no row
PostSave(r) ==
    /\ pc[r] = "post_save"
    /\ LET rows == {row \in progress : row.id = req[r].row}
       IN  IF rows # {}
           THEN /\ progress' = (progress \ rows) \cup
                        {[row EXCEPT !.position = req[r].position, !.updated_at = now] :
                            row \in rows}
                /\ req' = [req EXCEPT ![r].status = "200"]
           ELSE /\ UNCHANGED progress
                /\ req' = [req EXCEPT ![r].status = "500"]
    /\ pc' = [pc EXCEPT ![r] = "replied"]
    /\ UNCHANGED <<tenants, videos, series, nextVideoId, nextSeriesId, nextProgressId, now>>
    /\ UNCHANGED <<cache, lastWrite, replaced>>
    /\ MarkStale

\* (mutant) a reset that deletes every progress row of the tenant
ResetQuerysetWholeTenant(tenant, v) == {row \in progress : row.tenant = tenant}

\* ResetContinueView.post: VideoProgress.objects.filter(tenant=tenant, video=video)
ResetQueryset(tenant, v) == ProgressRows(tenant, v)

\* ResetContinueView.post behind the middleware and LoginRequiredMixin
ResetRequest(r, user, video_slug) ==
    /\ pc[r] = "idle"
    /\ LET q == NewRequest("reset", user, ResetPath, "", video_slug, NoBody)
           found == {v \in VideosBySlug(video_slug) : videos[v].is_public}
           video == CHOOSE v \in found : TRUE
       IN  IF ShouldBlockRequest(user, ResetPath)
           THEN Reply(r, q, "302:subscription-expired")
           ELSE IF user = AnonymousUser THEN Reply(r, q, "302:login")
           ELSE IF user = NoTenant THEN Reply(r, q, "403")
           ELSE IF GetObjectOr404(found) # "ok" THEN Reply(r, q, GetObjectOr404(found))
           ELSE IF ~IsVisibleTo(video, user) THEN Reply(r, q, "404")
           ELSE /\ progress' = progress \ ResetQueryset(user, video)
                /\ pc' = [pc EXCEPT ![r] = "replied"]
                /\ req' = [req EXCEPT ![r] =
                        [q EXCEPT !.tenant = user, !.video = video, !.status = "302:portal"]]
                /\ UNCHANGED <<tenants, videos, series, nextVideoId, nextSeriesId,
                               nextProgressId, now>>
                /\ UNCHANGED <<cache, lastWrite, replaced>>
                /\ MarkStale

\* WatchVideoView.get behind the middleware (no login required)
WatchRequest(r, user, slug, video_slug) ==
    /\ pc[r] = "idle"
    /\ LET q == NewRequest("watch", user, WatchPath, slug, video_slug, NoBody)
           tenant == GetTenantFromSlug(slug)
           queryset == {v \in VideosBySlug(video_slug) :
                            videos[v].is_public /\ IsVisibleTo(v, tenant)}
           \* .first() under Meta.ordering ("-created_at",)
           first == {v \in queryset :
                        \A w \in queryset : videos[w].created_at <= videos[v].created_at}
       IN  IF ShouldBlockRequest(user, WatchPath)
           THEN Reply(r, q, "302:subscription-expired")
           ELSE IF tenant = NoTenant THEN Reply(r, q, "404")
           ELSE IF queryset = {} THEN Reply(r, q, "404")
           ELSE \E video \in first :
                    Reply(r, [q EXCEPT !.tenant = tenant, !.video = video], "200")

UpstreamOutcomes == {"error", "non200", "nolink", "ok"}

\* TvChannelStreamView.get behind the middleware and LoginRequiredMixin; upstream
\* is what requests.get on the channel page gives
TvRequest(r, user, video_pk, upstream) ==
    /\ pc[r] = "idle"
    /\ LET q == NewRequest("tv", user, TvPath, "", ToString(video_pk), NoBody)
           found == {v \in DOMAIN videos :
                        v = video_pk /\ videos[v].is_public /\ videos[v].category = CATEGORY_TV}
           fetch == [q EXCEPT !.tenant = user, !.video = video_pk, !.fetched = TRUE]
       IN  IF ShouldBlockRequest(user, TvPath)
           THEN Reply(r, q, "302:subscription-expired")
           ELSE IF user = AnonymousUser THEN Reply(r, q, "302:login")
           ELSE IF user = NoTenant THEN Reply(r, q, "403")
           ELSE IF found = {} THEN Reply(r, q, "404")
           ELSE IF ~IsVisibleTo(video_pk, user) THEN Reply(r, q, "404")
           ELSE IF upstream \in {"error", "non200"} THEN Reply(r, fetch, "502")
           ELSE IF upstream = "nolink" THEN Reply(r, fetch, "404")
           ELSE Reply(r, fetch, "200")

\* TenantPublicView behind the middleware
TenantHomeRequest(r, user, slug) ==
    /\ pc[r] = "idle"
    /\ LET q == NewRequest("home", user, HomePath, slug, "", NoBody)
           tenant == GetTenantFromSlug(slug)
       IN  IF ShouldBlockRequest(user, HomePath)
           THEN Reply(r, q, "302:subscription-expired")
           ELSE IF tenant = NoTenant THEN Reply(r, q, "404")
           ELSE Reply(r, [q EXCEPT !.tenant = tenant], "200")

\* PwaHeartbeatView (login required), SupportView and SubscriptionExpiredView
\* (plain template views) behind the middleware
PageRequest(r, user, path) ==
    /\ pc[r] = "idle"
    /\ path \in {HeartbeatPath, SupportPath, ExpiredPath}
    /\ LET q == NewRequest("page", user, path, "", "", NoBody)
       IN  IF ShouldBlockRequest(user, path)
           THEN Reply(r, q, "302:subscription-expired")
           ELSE IF path = HeartbeatPath /\ user = AnonymousUser
           THEN Reply(r, q, "302:login")
           ELSE Reply(r, q, "200")

\* The response is delivered: the slot is free again
Finish(r) ==
    /\ pc[r] = "replied"
    /\ pc' = [pc EXCEPT ![r] = "idle"]
    /\ req' = [req EXCEPT ![r] = IdleReq]
    /\ UNCHANGED <<dbVars, now, cache, lastWrite, replaced, hist>>

\* admin.py TenantAdmin: the change form saves is_active and access_end_date
AdminSaveTenant(t, is_active, access_end_date) ==
    /\ t \in DOMAIN tenants
    /\ tenants' = [tenants EXCEPT ![t].is_active = is_active,
                                  ![t].access_end_date = access_end_date]
    /\ UNCHANGED <<videos, series, progress, nextVideoId, nextSeriesId, nextProgressId, now>>
    /\ UNCHANGED portalVars
    /\ MarkStale

----------------------------------------------------------------------------
(* Remote stream resolution, call by call.  req[r].upstream is the sequence *)
(* of the upstream requests the view has issued (the confirm parameter and  *)
(* the timeout of each), req[r].response the last upstream response.        *)

DrivePath == "/drive/"

NoTimeout == 0          \* requests' default: timeout=None

TV_TIMEOUT == 10        \* requests.get(video.source_url, timeout=10, ...)

\* An upstream request as issued: its confirm parameter ("" when it has none)
\* and its timeout
UpstreamRequest(confirm, timeout) == [confirm |-> confirm, timeout |-> timeout]

\* An upstream response: status code, the value of a download_warning cookie
\* ("absent" when there is none), the confirm token in the body ("" when the
\* body has none)
UpstreamResponse(status, cookie, body_token) ==
    [status |-> status, cookie |-> cookie, body_token |-> body_token]

NoResponse == UpstreamResponse(0, "absent", "")

\* (mutant) the token of the body preferred to the cookie's
ConfirmTokenBodyFirst(response) ==
    IF response.body_token # "" THEN response.body_token
    ELSE IF response.cookie # "absent" THEN response.cookie
    ELSE ""

\* _follow_drive_download: the value of the download_warning cookie, or, when
\* there is no such cookie or its value is empty, the token of the body; "" for None
ConfirmToken(response) ==
    IF response.cookie # "absent" /\ response.cookie # "" THEN response.cookie
    ELSE response.body_token

\* google_drive_stream up to the first session.get of _follow_drive_download
DriveBegin(r, user, file_id) ==
    /\ pc[r] = "idle"
    /\ LET q == NewRequest("drive", user, DrivePath, "", file_id, NoBody) @@
                    [upstream |-> << >>, response |-> NoResponse]
       IN  IF ShouldBlockRequest(user, DrivePath)
           THEN Reply(r, q, "302:subscription-expired")
           ELSE IF file_id = "" THEN Reply(r, q, "404")
           ELSE /\ pc' = [pc EXCEPT ![r] = "drive_first"]
                /\ req' = [req EXCEPT ![r] =
                        [q EXCEPT !.upstream = <<UpstreamRequest("", NoTimeout)>>]]
                /\ UNCHANGED <<dbVars, now, cache, lastWrite, replaced, hist>>

\* The first response arrives: not 200, it is final (Http404 in the view); 200
\* with a token, the second session.get carries it; 200 without, it is streamed
DriveFirstAnswer(r, response) ==
    /\ pc[r] = "drive_first"
    /\ LET q == [req[r] EXCEPT !.response = response]
           token == ConfirmToken(response)
       IN  IF response.status # 200 THEN Reply(r, q, "404")
           ELSE IF token # ""
           THEN /\ pc' = [pc EXCEPT ![r] = "drive_second"]
                /\ req' = [req EXCEPT ![r] =
                        [q EXCEPT !.upstream = Append(@, UpstreamRequest(token, NoTimeout))]]
                /\ UNCHANGED <<dbVars, now, cache, lastWrite, replaced, hist>>
           ELSE Reply(r, q, "200")

\* The second response arrives and is returned whatever its status
DriveSecondAnswer(r, response) ==
    /\ pc[r] = "drive_second"
    /\ LET q == [req[r] EXCEPT !.response = response]
       IN  IF response.status # 200 THEN Reply(r, q, "404") ELSE Reply(r, q, "200")

\* session.get raises (connection refused, reset, ...): nothing catches it
DriveError(r) ==
    /\ pc[r] \in {"drive_first", "drive_second"}
    /\ Reply(r, req[r], "500")

----------------------------------------------------------------------------
(* _extract_m3u8_url.  A text is a sequence of characters.  The pattern is  *)
(* the one re.compile receives: in the raw string literal of views.py 56,   *)
(* "\\s" is a backslash and the letter s, and "\\." a backslash and any     *)
(* character.                                                               *)

\* re.IGNORECASE, over the letters of the pattern
Lower(c) ==
    CASE c = "H" -> "h" [] c = "T" -> "t" [] c = "P" -> "p" [] c = "S" -> "s"
      [] c = "M" -> "m" [] c = "U" -> "u" [] OTHER -> c

\* The literal lit stands in text at position i
LitAt(text, i, lit) ==
    /\ i >= 1 /\ i + Len(lit) - 1 <= Len(text)
    /\ \A k \in 1..Len(lit) : Lower(text[i + k - 1]) = lit[k]

\* [^"'\\s<>] as compiled: not a quote, not a backslash, not the letter s, not < or >
UrlClass(c) == Lower(c) \notin {"\"", "'", "\\", "s", "<", ">"}

\* The position after the longest run of characters of the class from i on
RECURSIVE RunEnd(_, _)
RunEnd(text, i) ==
    IF i <= Len(text) /\ UrlClass(text[i]) THEN RunEnd(text, i + 1) ELSE i

\* The position after "http", an optional "s" and "://" at i, or 0
AfterScheme(text, i) ==
    IF ~LitAt(text, i, <<"h", "t", "t", "p">>) THEN 0
    ELSE IF LitAt(text, i + 4, <<"s", ":", "/", "/">>) THEN i + 8
    ELSE IF LitAt(text, i + 4, <<":", "/", "/">>) THEN i + 7
    ELSE 0

\* M3U8_URL_PATTERN matched at position i: the position after the match, or 0.
\* The run [..]+ cannot cross a backslash, so it must end at one; then any
\* character, "m3u8", and the longest run [..]*
MatchEnd(text, i) ==
    LET k == AfterScheme(text, i)
        p == RunEnd(text, k)
    IN  IF k = 0 \/ p = k THEN 0
        ELSE IF /\ LitAt(text, p, <<"\\">>)
                /\ p + 1 <= Len(text) /\ text[p + 1] # "\n"
                /\ LitAt(text, p + 2, <<"m", "3", "u", "8">>)
        THEN RunEnd(text, p + 6)
        ELSE 0

\* _extract_m3u8_url: match.group(0) of the leftmost match, << >> for None
ExtractM3u8Url(html) ==
    LET starts == {i \in 1..Len(html) : MatchEnd(html, i) # 0}
    IN  IF starts = {} THEN << >>
        ELSE LET i == CHOOSE i \in starts : \A j \in starts : i <= j
             IN  SubSeq(html, i, MatchEnd(html, i) - 1)

\* TvChannelStreamView.get up to requests.get: the middleware, LoginRequiredMixin,
\* the caller's tenant, the public TV video of that pk, its blocklist
TvBegin(r, user, video_pk) ==
    /\ pc[r] = "idle"
    /\ LET q == NewRequest("tv", user, TvPath, "", ToString(video_pk), NoBody) @@
                    [upstream |-> << >>, response |-> [status |-> 0, html |-> << >>],
                     url |-> << >>]
           found == {v \in DOMAIN videos :
                        v = video_pk /\ videos[v].is_public /\ videos[v].category = CATEGORY_TV}
       IN  IF ShouldBlockRequest(user, TvPath)
           THEN Reply(r, q, "302:subscription-expired")
           ELSE IF user = AnonymousUser THEN Reply(r, q, "302:login")
           ELSE IF user = NoTenant THEN Reply(r, q, "403")
           ELSE IF found = {} THEN Reply(r, q, "404")
           ELSE IF ~IsVisibleTo(video_pk, user) THEN Reply(r, q, "404")
           ELSE /\ pc' = [pc EXCEPT ![r] = "tv_fetch"]
                /\ req' = [req EXCEPT ![r] =
                        [q EXCEPT !.tenant = user, !.video = video_pk, !.fetched = TRUE,
                                  !.upstream = <<UpstreamRequest("", TV_TIMEOUT)>>]]
                /\ UNCHANGED <<dbVars, now, cache, lastWrite, replaced, hist>>

\* The channel page answers: 502 unless 200, 404 without a link, the link otherwise
TvAnswer(r, response) ==
    /\ pc[r] = "tv_fetch"
    /\ LET q == [req[r] EXCEPT !.response = response]
           m3u8_url == ExtractM3u8Url(response.html)
       IN  IF response.status # 200 THEN Reply(r, q, "502")
           ELSE IF m3u8_url = << >> THEN Reply(r, q, "404")
           ELSE Reply(r, [q EXCEPT !.url = m3u8_url], "200")

\* requests.get raises a RequestException (connection error, ...): 502
TvFail(r) ==
    /\ pc[r] = "tv_fetch"
    /\ Reply(r, req[r], "502")

\* The upstream has not answered within the timeout of the request:
\* requests.get raises Timeout, a RequestException: 502
TvTimeout(r) ==
    /\ pc[r] = "tv_fetch"
    /\ req[r].upstream[Len(req[r].upstream)].timeout # NoTimeout
    /\ Reply(r, [req[r] EXCEPT !.response = [status |-> 0, html |-> << >>]], "502")

----------------------------------------------------------------------------
(* views.py: TenantPortalView.get_queryset over django.core.cache *)

NoPayload == <<>>       \* cache.get returns None

\* (mutant) cache.get that never expires an entry
CacheGetIgnoringExpiry(key) ==
    IF cache[key] # NoEntry THEN cache[key].payload ELSE NoPayload

\* cache.get(cache_key): the stored payload unless absent or expired
CacheGet(key) ==
    IF cache[key] # NoEntry /\ now < cache[key].expires
    THEN cache[key].payload
    ELSE NoPayload

\* (mutant) cache.add: an entry still alive is kept
CacheSetIfAbsent(key, payload) ==
    IF cache[key] # NoEntry /\ now < cache[key].expires THEN cache
    ELSE [cache EXCEPT ![key] = [payload |-> payload, expires |-> now + CACHE_TIMEOUT]]

\* (mutant) cache.set with twice the timeout
CacheSetLongTimeout(key, payload) ==
    [cache EXCEPT ![key] = [payload |-> payload, expires |-> now + 2 * CACHE_TIMEOUT]]

\* cache.set(cache_key, payload, timeout=CACHE_TIMEOUT): the cache afterwards
CacheSet(key, payload) ==
    [cache EXCEPT ![key] = [payload |-> payload, expires |-> now + CACHE_TIMEOUT]]

\* get_queryset, up to cache.get: a hit returns the cached payload, a miss goes on to build
PortalGet(r, tenant) ==
    /\ pc[r] = "idle"
    /\ tenant = NoTenant \/ tenant \in DOMAIN tenants
    /\ ~ShouldBlock(tenant)
    /\ LET cache_key == GetCacheKey(tenant)
           payload == CacheGet(cache_key)
       IN  IF payload # NoPayload
           THEN /\ pc' = [pc EXCEPT ![r] = "done"]
                /\ req' = [req EXCEPT ![r] = [tenant |-> tenant, cache_key |-> cache_key,
                                              payload |-> payload, hit |-> TRUE,
                                              t |-> now]]
                /\ hist' = [hist EXCEPT ![r] = hist[cache_key]]
           ELSE /\ pc' = [pc EXCEPT ![r] = "build"]
                /\ req' = [req EXCEPT ![r] = [tenant |-> tenant, cache_key |-> cache_key,
                                              payload |-> NoPayload, hit |-> FALSE,
                                              t |-> 0]]
                /\ UNCHANGED hist
    /\ UNCHANGED <<cache, lastWrite, replaced, now>>
    /\ UNCHANGED dbVars

\* get_queryset: payload = self._build_portal_payload(tenant)
PortalBuild(r) ==
    /\ pc[r] = "build"
    /\ pc' = [pc EXCEPT ![r] = "set"]
    /\ req' = [req EXCEPT ![r].payload = BuildPortalPayload(req[r].tenant)]
    /\ hist' = [hist EXCEPT ![r] = [builtAt |-> now, storedAt |-> -1, staleAt |-> -1]]
    /\ UNCHANGED <<cache, lastWrite, replaced, now>>
    /\ UNCHANGED dbVars

\* get_queryset: cache.set(...), then the payload is applied and returned
PortalSet(r) ==
    /\ pc[r] = "set"
    /\ pc' = [pc EXCEPT ![r] = "done"]
    /\ cache' = CacheSet(req[r].cache_key, req[r].payload)
    /\ req' = [req EXCEPT ![r].t = now]
    /\ hist' = [hist EXCEPT ![r].storedAt = now,
                            ![req[r].cache_key] = [hist[r] EXCEPT !.storedAt = now]]
    /\ lastWrite' = [lastWrite EXCEPT ![req[r].cache_key] = r]
    /\ replaced' = [replaced EXCEPT ![req[r].cache_key] =
                        IF CacheGet(req[r].cache_key) # NoPayload
                           /\ CacheGet(req[r].cache_key) # req[r].payload
                        THEN cache[req[r].cache_key] ELSE @]
    /\ UNCHANGED now
    /\ UNCHANGED dbVars

\* The response has been sent; the worker takes the next request
PortalDone(r) ==
    /\ pc[r] = "done"
    /\ pc' = [pc EXCEPT ![r] = "idle"]
    /\ req' = [req EXCEPT ![r] = IdleReq]
    /\ hist' = [hist EXCEPT ![r] = NoHist]
    /\ lastWrite' = [k \in DOMAIN lastWrite |-> IF lastWrite[k] = r THEN "none" ELSE lastWrite[k]]
    /\ UNCHANGED <<cache, replaced, now>>
    /\ UNCHANGED dbVars

----------------------------------------------------------------------------
(* The cache specification: two workers serve portal requests of one tenant *)
(* concurrently while the clock runs and the owner changes the blocklist of *)
(* a video.                                                                 *)

\* The instants at which something happens: the start, a few seconds later
\* (the time a worker may take from its build to its cache.set), and just
\* before and just after each multiple of the cache timeout
TimePoints ==
    {0, MaxStoreLag} \cup {k * CACHE_TIMEOUT + d : k \in 1..MaxPeriods, d \in {-1, 1}}

\* A catalog the owner has set up: one public movie, visible to everyone
InitCache ==
    /\ tenants = InitTenants
    /\ videos = (1 :> [ tenant |-> "alpha", is_public |-> TRUE, blocked_tenants |-> {},
                        series |-> NULL, category |-> CATEGORY_MOVIE, season_number |-> NULL,
                        episode_number |-> NULL, genre |-> "", created_at |-> 0 ])
    /\ series = <<>>
    /\ progress = {}
    /\ nextVideoId = 2
    /\ nextSeriesId = 1
    /\ nextProgressId = 1
    /\ now = 0
    /\ cache = [k \in CacheKeys |-> NoEntry]
    /\ pc = [r \in Requests |-> "idle"]
    /\ req = [r \in Requests |-> IdleReq]
    /\ hist = [h \in Requests \cup CacheKeys |-> NoHist]
    /\ lastWrite = [k \in CacheKeys |-> "none"]
    /\ replaced = [k \in CacheKeys |-> NoEntry]

BlocklistForms ==
    [ series : {NULL},
      category : {CATEGORY_MOVIE},
      blocked_tenants : {{}, {"beta"}},
      season_number : {NULL},
      episode_number : {NULL},
      genre : {""} ]

NextCache ==
    \/ \E r \in Requests : PortalGet(r, "beta")
    \/ \E r \in Requests : PortalBuild(r)
    \/ \E r \in Requests : PortalSet(r)
    \/ \E r \in Requests : PortalDone(r)
    \/ \E t \in TimePoints : t > now /\ Tick(t - now)
    \/ \E v \in DOMAIN videos, f \in BlocklistForms : OwnerEditVideo("alpha", v, f)

SpecCache == InitCache /\ [][NextCache]_vars

----------------------------------------------------------------------------
(* The staleness specification: one worker serves the portal of one tenant  *)
(* while every kind of catalog and progress write happens around it.        *)

\* A catalog the owner has set up: one active series with one public episode
InitStale ==
    /\ tenants = InitTenants
    /\ videos = (1 :> [ tenant |-> "alpha", is_public |-> TRUE, blocked_tenants |-> {},
                        series |-> 1, category |-> CATEGORY_SERIES, season_number |-> 1,
                        episode_number |-> 1, genre |-> "", created_at |-> 0 ])
    /\ series = (1 :> [tenant |-> "alpha", title |-> 1, is_active |-> TRUE, created_at |-> 0])
    /\ progress = {}
    /\ nextVideoId = 2
    /\ nextSeriesId = 2
    /\ nextProgressId = 1
    /\ now = 0
    /\ cache = [k \in CacheKeys |-> NoEntry]
    /\ pc = [r \in Requests |-> "idle"]
    /\ req = [r \in Requests |-> IdleReq]
    /\ hist = [h \in Requests \cup CacheKeys |-> NoHist]
    /\ lastWrite = [k \in CacheKeys |-> "none"]
    /\ replaced = [k \in CacheKeys |-> NoEntry]

\* The edit form as the owner submits it after changing only the blocklist
StaleForms(v) ==
    { [ series |-> videos[v].series,
        category |-> videos[v].category,
        blocked_tenants |-> b,
        season_number |-> videos[v].season_number,
        episode_number |-> videos[v].episode_number,
        genre |-> videos[v].genre ] : b \in {{}, {"beta"}} }

NewMovieForm ==
    [ series |-> NULL, category |-> CATEGORY_MOVIE, blocked_tenants |-> {},
      season_number |-> NULL, episode_number |-> NULL, genre |-> "" ]

NextStale ==
    \/ PortalGet("r1", "beta")
    \/ PortalBuild("r1")
    \/ PortalSet("r1")
    \/ PortalDone("r1")
    \/ nextVideoId <= 1 + MaxCacheVideos /\ OwnerCreateVideo("alpha", NewMovieForm)
    \/ \E v \in DOMAIN videos : \E f \in StaleForms(v) : OwnerEditVideo("alpha", v, f)
    \/ \E v \in DOMAIN videos : OwnerDeleteVideo("alpha", v)
    \/ \E s \in DOMAIN series : OwnerDeleteSeries("alpha", s)
    \/ \E v \in DOMAIN videos :
            /\ ProgressRows("beta", v) # {} \/ nextProgressId <= MaxProgressRows
            /\ VideoProgressPost("beta", "beta", v, 5)
    \/ \E v \in DOMAIN videos : ResetContinue("beta", v)

SpecStale == InitStale /\ [][NextStale]_vars

----------------------------------------------------------------------------
(* The ranking specification: a catalog of more videos than the continue    *)
(* list holds, on most of which the viewer tenant has already reported      *)
(* progress; the tenant goes on watching while the owner blocks a video.    *)

\* Progress rows that exist at the start
RankSeed == MaxRankVideos - 3

\* The catalog: standalone movies, episodes, TV channels, videos linked to a
\* series with category tv (stored through the admin), and unlinked videos
\* that kept the category series (their series was deleted)
RankVideo(i) ==
    [ tenant |-> "alpha", is_public |-> TRUE, blocked_tenants |-> {},
      series |-> IF i % 5 \in {1, 3} THEN 1 ELSE NULL,
      category |-> CASE i % 5 = 0 -> CATEGORY_MOVIE
                     [] i % 5 = 1 -> CATEGORY_SERIES
                     [] i % 5 = 2 -> CATEGORY_TV
                     [] i % 5 = 3 -> CATEGORY_TV
                     [] OTHER -> CATEGORY_SERIES,
      season_number |-> IF i % 5 = 1 THEN 1 ELSE NULL,
      episode_number |-> IF i % 5 = 1 THEN i ELSE NULL,
      genre |-> "", created_at |-> 0 ]

\* The tenant has watched the first RankSeed videos, either one per second
\* or all of them within the same second
InitRank ==
    /\ tenants = InitTenants
    /\ videos = [i \in 1..MaxRankVideos |-> RankVideo(i)]
    /\ series = (1 :> [tenant |-> "alpha", title |-> 1, is_active |-> TRUE, created_at |-> 0])
    /\ \E spread \in BOOLEAN :
            progress = { [id |-> i, tenant |-> "beta", video |-> i, position |-> 5,
                          updated_at |-> IF spread THEN i ELSE 0] : i \in 1..RankSeed }
    /\ nextVideoId = MaxRankVideos + 1
    /\ nextSeriesId = 2
    /\ nextProgressId = RankSeed + 1
    /\ now = RankSeed
    /\ cache = [k \in CacheKeys |-> NoEntry]
    /\ pc = [r \in Requests |-> "idle"]
    /\ req = [r \in Requests |-> IdleReq]
    /\ hist = [h \in Requests \cup CacheKeys |-> NoHist]
    /\ lastWrite = [k \in CacheKeys |-> "none"]
    /\ replaced = [k \in CacheKeys |-> NoEntry]

\* The videos the tenant reports progress on: the first of the catalog again,
\* or the next one not watched yet
RankTargets ==
    LET fresh == {v \in DOMAIN videos : ProgressRows("beta", v) = {}}
    IN  {1} \cup (IF fresh = {} THEN {} ELSE {Min(fresh)})

NextRank ==
    \/ \E v \in RankTargets, p \in {0, 5} : VideoProgressPost("beta", "beta", v, p)
    \/ \E f \in StaleForms(2) : OwnerEditVideo("alpha", 2, f)
    \/ now < RankSeed + MaxRankTicks /\ Tick(1)

SpecRank == InitRank /\ [][NextRank]_vars

----------------------------------------------------------------------------
(* The episode specification: a series whose episodes the owner numbers,    *)
(* renumbers or leaves unnumbered, and hides from a tenant or not.          *)

\* One active series with MaxSeriesEpisodes episodes saved without numbers,
\* the first alone, the others in pairs within the same second
InitSeries ==
    /\ tenants = InitTenants
    /\ videos = [i \in 1..MaxSeriesEpisodes |->
                    [ tenant |-> "alpha", is_public |-> TRUE, blocked_tenants |-> {},
                      series |-> 1, category |-> CATEGORY_SERIES, season_number |-> NULL,
                      episode_number |-> NULL, genre |-> "", created_at |-> i \div 2 ]]
    /\ series = (1 :> [tenant |-> "alpha", title |-> 1, is_active |-> TRUE, created_at |-> 0])
    /\ progress = {}
    /\ nextVideoId = MaxSeriesEpisodes + 1
    /\ nextSeriesId = 2
    /\ nextProgressId = 1
    /\ now = MaxSeriesEpisodes
    /\ cache = [k \in CacheKeys |-> NoEntry]
    /\ pc = [r \in Requests |-> "idle"]
    /\ req = [r \in Requests |-> IdleReq]
    /\ hist = [h \in Requests \cup CacheKeys |-> NoHist]
    /\ lastWrite = [k \in CacheKeys |-> "none"]
    /\ replaced = [k \in CacheKeys |-> NoEntry]

\* The edit form of an episode: season and episode number empty or filled,
\* hidden from the viewer tenant or not
SeriesForms(v) ==
    [ series : {videos[v].series},
      category : {videos[v].category},
      blocked_tenants : {{}, {"beta"}},
      season_number : {NULL, 2},
      episode_number : {NULL, 1, 2},
      genre : {""} ]

NextSeries ==
    \E v \in DOMAIN videos : \E f \in SeriesForms(v) : OwnerEditVideo("alpha", v, f)

SpecSeries == InitSeries /\ [][NextSeries]_vars

----------------------------------------------------------------------------
(* The progress specification: two devices post progress and reset it, each *)
(* POST taken query by query, so that the queries of two requests interleave. *)

\* A public video of the owner with a slug
SluggedVideo(slug, category, blocked_tenants) ==
    [ tenant |-> "alpha", is_public |-> TRUE, blocked_tenants |-> blocked_tenants,
      series |-> NULL, category |-> category, season_number |-> NULL,
      episode_number |-> NULL, genre |-> "", created_at |-> 0, slug |-> slug ]

InitProgress ==
    /\ tenants = InitTenants
    /\ videos = (1 :> SluggedVideo("a", CATEGORY_MOVIE, {})) @@
                (2 :> SluggedVideo("b", CATEGORY_MOVIE, {}))
    /\ series = << >>
    /\ progress = {}
    /\ nextVideoId = 3
    /\ nextSeriesId = 1
    /\ nextProgressId = 1
    /\ now = 0
    /\ cache = [k \in CacheKeys |-> NoEntry]
    /\ pc = [r \in Requests |-> "idle"]
    /\ req = [r \in Requests |-> IdleReq]
    /\ hist = [h \in Requests \cup CacheKeys |-> NoHist]
    /\ lastWrite = [k \in CacheKeys |-> "none"]
    /\ replaced = [k \in CacheKeys |-> NoEntry]

\* The positions the player posts
ProgressBodies == {JsonBody("object", "number", -10), JsonBody("object", "number", 5)}

NextProgress ==
    \E r \in Requests :
        \/ /\ nextProgressId <= MaxProgressRows
           /\ \E user \in DOMAIN tenants, video_slug \in {"a", "b"}, body \in ProgressBodies :
                PostBegin(r, user, tenants[user].slug, video_slug, body)
        \/ PostGet(r)
        \/ PostCreate(r)
        \/ PostReget(r)
        \/ PostSave(r)
        \/ \E user \in DOMAIN tenants, video_slug \in {"a", "b"} :
                ResetRequest(r, user, video_slug)
        \/ Finish(r)

SpecProgress == InitProgress /\ [][NextProgress]_vars

----------------------------------------------------------------------------
(* The payload specification: a subscriber's device posts every kind of     *)
(* position payload for videos it may see, next to a second device that     *)
(* posts a well-formed one.                                                 *)

\* The payloads of the progress POST, well-formed and malformed
PayloadBodies ==
    {JsonBody("invalid", "missing", 0), JsonBody("nonobject", "missing", 0)}
    \cup {JsonBody("object", kind, 0) : kind \in {"missing", "null", "text", "array"}}
    \cup {JsonBody("object", "number", n) : n \in {-10, 5}}
    \cup {FormBody(kind, 0) : kind \in {"missing", "text"}}
    \cup {FormBody("number", n) : n \in {-10, 5}}

NextPayload ==
    \/ /\ nextProgressId <= MaxProgressRows
       /\ \E video_slug \in {"a", "b"}, body \in PayloadBodies :
            PostBegin("r1", "beta", "beta", video_slug, body)
    \/ /\ nextProgressId <= MaxProgressRows
       /\ \E video_slug \in {"a", "b"} :
            PostBegin("r2", "beta", "beta", video_slug, JsonBody("object", "number", 5))
    \/ \E r \in Requests :
        \/ PostGet(r)
        \/ PostCreate(r)
        \/ PostReget(r)
        \/ PostSave(r)
        \/ Finish(r)

SpecPayload == InitProgress /\ [][NextPayload]_vars

----------------------------------------------------------------------------
(* The access specification: callers with and without a tenant, logged in   *)
(* or not, address every endpoint while the admin deactivates, reactivates  *)
(* and re-dates the subscriber's tenant and its subscription runs out.      *)

\* A movie and a TV channel of the owner, one progress record of the owner
InitAccess ==
    /\ tenants = InitTenants
    /\ videos = (1 :> SluggedVideo("a", CATEGORY_MOVIE, {})) @@
                (2 :> SluggedVideo("b", CATEGORY_TV, {}))
    /\ series = << >>
    /\ progress = {[id |-> 1, tenant |-> "alpha", video |-> 1, position |-> 5, updated_at |-> 0]}
    /\ nextVideoId = 3
    /\ nextSeriesId = 1
    /\ nextProgressId = 2
    /\ now = 0
    /\ cache = [k \in CacheKeys |-> NoEntry]
    /\ pc = [r \in Requests |-> "idle"]
    /\ req = [r \in Requests |-> IdleReq]
    /\ hist = [h \in Requests \cup CacheKeys |-> NoHist]
    /\ lastWrite = [k \in CacheKeys |-> "none"]
    /\ replaced = [k \in CacheKeys |-> NoEntry]

\* Who sends requests: the tenants' users, a user without a tenant, nobody logged in
Callers == DOMAIN tenants \cup {NoTenant, AnonymousUser}

\* The tenant slugs of the URLs, one of them of no tenant
UrlSlugs == {tenants[t].slug : t \in DOMAIN tenants} \cup {"nobody"}

NextAccess ==
    \/ \E user \in Callers, slug \in UrlSlugs :
        \/ /\ nextProgressId <= MaxProgressRows
           /\ PostBegin("r1", user, slug, "a", JsonBody("object", "number", 10))
        \/ WatchRequest("r1", user, slug, "a")
        \/ TenantHomeRequest("r1", user, slug)
    \/ \E user \in Callers :
        \/ ResetRequest("r1", user, "a")
        \/ \E upstream \in {"ok", "error"} : TvRequest("r1", user, 2, upstream)
        \/ \E path \in {HeartbeatPath, SupportPath, ExpiredPath} : PageRequest("r1", user, path)
    \/ PostGet("r1")
    \/ PostCreate("r1")
    \/ PostSave("r1")
    \/ Finish("r1")
    \/ \E is_active \in BOOLEAN, access_end_date \in {NULL, SubscriptionSeconds} :
            AdminSaveTenant("beta", is_active, access_end_date)
    \/ \E t \in {SubscriptionSeconds + k : k \in 0..MaxExpiredSeconds} :
            /\ now < t
            /\ Tick(t - now)

SpecAccess == InitAccess /\ [][NextAccess]_vars

----------------------------------------------------------------------------
(* The blocklist specification: a subscriber addresses the endpoints that   *)
(* are not cached while the owner and the admin block and unblock it on the *)
(* videos, and a tenant is created with a sample video of the same title.   *)

\* A TV channel of the owner
InitBlock ==
    /\ tenants = InitTenants
    /\ videos = (1 :> SluggedVideo("a", CATEGORY_TV, {}))
    /\ series = << >>
    /\ progress = {}
    /\ nextVideoId = 2
    /\ nextSeriesId = 1
    /\ nextProgressId = 1
    /\ now = 0
    /\ cache = [k \in CacheKeys |-> NoEntry]
    /\ pc = [r \in Requests |-> "idle"]
    /\ req = [r \in Requests |-> IdleReq]
    /\ hist = [h \in Requests \cup CacheKeys |-> NoHist]
    /\ lastWrite = [k \in CacheKeys |-> "none"]
    /\ replaced = [k \in CacheKeys |-> NoEntry]

\* What the admin change form submits for video v: the row as stored, with
\* the subscriber on the blocklist or not
AdminBlockForms(v) ==
    { [videos[v] EXCEPT !.blocked_tenants = b] : b \in {{}, {"beta"}} }

NextBlock ==
    \/ \E f \in StaleForms(1) : OwnerEditVideo("alpha", 1, f)
    \/ \E v \in DOMAIN videos : \E f \in AdminBlockForms(v) : AdminSaveVideo(v, f)
    \/ CreateTenantCommand("gamma", TRUE, "a")
    \/ /\ nextProgressId <= MaxProgressRows
       /\ PostBegin("r1", "beta", "beta", "a", JsonBody("object", "number", 10))
    \/ PostGet("r1")
    \/ PostCreate("r1")
    \/ PostSave("r1")
    \/ ResetRequest("r1", "beta", "a")
    \/ WatchRequest("r1", "beta", "beta", "a")
    \/ \E v \in DOMAIN videos, upstream \in UpstreamOutcomes : TvRequest("r1", "beta", v, upstream)
    \/ Finish("r1")

SpecBlock == InitBlock /\ [][NextBlock]_vars

----------------------------------------------------------------------------
(* The upstream specification: stream resolution against an upstream that   *)
(* answers with any status, cookie and body, fails, or never answers.       *)

\* What the Drive endpoint may answer
DriveResponses ==
    {UpstreamResponse(status, cookie, body_token) :
        status \in {200, 404}, cookie \in {"absent", "", "c1"}, body_token \in {"", "b1"}}

\* Pieces of channel pages
SchemeHttp == <<"h", "t", "t", "p", ":", "/", "/">>
SchemeHttps == <<"h", "t", "t", "p", "s", ":", "/", "/">>
HostPath == <<"h", "o", "s", "t", "/", "l", "i", "v", "e", "/", "p", "l", "a", "y", "l", "i", "s", "t">>
ShortPath == <<"h", "o", "/", "a">>
ExtM3u8 == <<"m", "3", "u", "8">>

\* <video src="https://host/live/playlist.m3u8">
PageWithLink ==
    <<"<", "v", "i", "d", "e", "o", " ", "s", "r", "c", "=", "\"">> \o SchemeHttps \o HostPath
        \o <<".">> \o ExtM3u8 \o <<"\"", ">">>

\* A page with http://ho/a\.m3u8 in a script, the dot escaped
PageWithEscapedLink == <<"'">> \o SchemeHttp \o ShortPath \o <<"\\", ".">> \o ExtM3u8 \o <<"'">>

PageWithoutLink == <<"<", "p", ">", "o", "f", "f", "<", "/", "p", ">">>

\* What the channel page may answer
TvResponses ==
    {[status |-> status, html |-> html] :
        status \in {200, 503}, html \in {PageWithLink, PageWithEscapedLink, PageWithoutLink}}

NextUpstream ==
    \/ \E file_id \in {"", "f1"} : DriveBegin("r1", AnonymousUser, file_id)
    \/ \E response \in DriveResponses : DriveFirstAnswer("r1", response)
    \/ \E response \in DriveResponses : DriveSecondAnswer("r1", response)
    \/ DriveError("r1")
    \/ Finish("r1")
    \/ \E user \in {"beta", NoTenant}, v \in {1, 2} : TvBegin("r2", user, v)
    \/ \E response \in TvResponses : TvAnswer("r2", response)
    \/ TvFail("r2")
    \/ TvTimeout("r2")
    \/ Finish("r2")
    \/ \E f \in StaleForms(1) : OwnerEditVideo("alpha", 1, f)

SpecUpstream == InitBlock /\ [][NextUpstream]_vars

\* The same requests when the server keeps running: a timeout that a request
\* carries does fire; the upstream itself is under no obligation to answer.
SpecUpstreamFair == SpecUpstream /\ WF_vars(TvTimeout("r2"))

----------------------------------------------------------------------------
(* The extraction specification: _extract_m3u8_url applied to page bodies   *)
(* put together from a prefix, a scheme, a path, a dot as pages write it,   *)
(* an extension and what follows the URL.                                   *)

\* The bodies: a URL, bare or in an attribute, of scheme http, https or ftp,
\* with a plain dot, an escaped dot, a backslash and a letter, or no dot before
\* the extension m3u8, M3U8 or mp4, followed by nothing, the end of the
\* attribute, a query string, or a blank and more text
Bodies ==
    LET SchemeFtp == <<"f", "t", "p", ":", "/", "/">>
        ExtM3u8Upper == <<"M", "3", "U", "8">>
        ExtMp4 == <<"m", "p", "4">>
        AttrPrefix == <<"<", "v", "i", "d", "e", "o", " ", "s", "r", "c", "=", "\"">>
        AttrSuffix == <<"\"", ">">>
        QuerySuffix == <<"?", "t", "=", "1", "\"", ">">>
        TextSuffix == <<" ", "x">>
    IN  { prefix \o scheme \o path \o dot \o ext \o suffix :
            prefix \in {<< >>, AttrPrefix},
            scheme \in {SchemeHttp, SchemeHttps, SchemeFtp},
            path \in {ShortPath, HostPath},
            dot \in {<<".">>, <<"\\", ".">>, <<"\\", "x">>, << >>},
            ext \in {ExtM3u8, ExtM3u8Upper, ExtMp4},
            suffix \in {<< >>, AttrSuffix, QuerySuffix, TextSuffix} }

\* A call of _extract_m3u8_url(html) is about to run
InitExtract ==
    /\ tenants = InitTenants
    /\ videos = (1 :> SluggedVideo("a", CATEGORY_TV, {}))
    /\ series = << >>
    /\ progress = {}
    /\ nextVideoId = 2
    /\ nextSeriesId = 1
    /\ nextProgressId = 1
    /\ now = 0
    /\ cache = [k \in CacheKeys |-> NoEntry]
    /\ pc = [r \in Requests |-> IF r = "r1" THEN "extract" ELSE "idle"]
    /\ \E html \in Bodies :
            req = [r \in Requests |->
                    IF r = "r1" THEN [kind |-> "extract", html |-> html, url |-> << >>]
                    ELSE IdleReq]
    /\ hist = [h \in Requests \cup CacheKeys |-> NoHist]
    /\ lastWrite = [k \in CacheKeys |-> "none"]
    /\ replaced = [k \in CacheKeys |-> NoEntry]

\* _extract_m3u8_url returns
ExtractReturn(r) ==
    /\ pc[r] = "extract"
    /\ pc' = [pc EXCEPT ![r] = "replied"]
    /\ req' = [req EXCEPT ![r].url = ExtractM3u8Url(req[r].html)]
    /\ UNCHANGED <<dbVars, now, cache, lastWrite, replaced, hist>>

NextExtract == ExtractReturn("r1")

SpecExtract == InitExtract /\ [][NextExtract]_vars

----------------------------------------------------------------------------
(* The identity specification: portal reads of a subscriber, of a tenant    *)
(* created by create_tenant under a business name of the operator's choice, *)
(* and of a logged-in user without a tenant profile (a superuser), over a   *)
(* catalog and progress records that do not change.                         *)

\* slugify(business) of create_tenant for the third tenant
BusinessSlugs == {"gamma", "anonymous"}

\* Video 1 is blocked for the subscriber, video 2 for nobody; the third tenant
\* has watched video 1 and the subscriber video 2, so that the payloads of the
\* three callers differ
InitIdentity ==
    /\ \E tenant_slug \in BusinessSlugs :
            tenants = InitTenants @@
                ("gamma" :> [slug |-> tenant_slug, is_active |-> TRUE,
                             access_end_date |-> SubscriptionSeconds])
    /\ videos = (1 :> SluggedVideo("a", CATEGORY_MOVIE, {"beta"})) @@
                (2 :> SluggedVideo("b", CATEGORY_MOVIE, {}))
    /\ series = << >>
    /\ progress = { [id |-> 1, tenant |-> "gamma", video |-> 1, position |-> 5, updated_at |-> 0],
                    [id |-> 2, tenant |-> "beta", video |-> 2, position |-> 5, updated_at |-> 0] }
    /\ nextVideoId = 3
    /\ nextSeriesId = 1
    /\ nextProgressId = 3
    /\ now = 0
    /\ cache = [k \in CacheKeys |-> NoEntry]
    /\ pc = [r \in Requests |-> "idle"]
    /\ req = [r \in Requests |-> IdleReq]
    /\ hist = [h \in Requests \cup CacheKeys |-> NoHist]
    /\ lastWrite = [k \in CacheKeys |-> "none"]
    /\ replaced = [k \in CacheKeys |-> NoEntry]

\* request.user.tenant_profile of the users that read the portal
PortalCallers == {"beta", "gamma", NoTenant}

NextIdentity ==
    \/ \E r \in Requests, tenant \in PortalCallers : PortalGet(r, tenant)
    \/ \E r \in Requests : PortalBuild(r)
    \/ \E r \in Requests : PortalSet(r)
    \/ \E r \in Requests : PortalDone(r)

SpecIdentity == InitIdentity /\ [][NextIdentity]_vars

----------------------------------------------------------------------------
(* The deactivation specification: the subscriber's user reads the portal   *)
(* while the admin deactivates, reactivates and re-dates its tenant and the *)
(* subscription runs out.                                                   *)

NextDeactivate ==
    \/ \E r \in Requests : PortalGet(r, "beta")
    \/ \E r \in Requests : PortalBuild(r)
    \/ \E r \in Requests : PortalSet(r)
    \/ \E r \in Requests : PortalDone(r)
    \/ \E is_active \in BOOLEAN, access_end_date \in {NULL, SubscriptionSeconds} :
            AdminSaveTenant("beta", is_active, access_end_date)
    \/ \E t \in {SubscriptionSeconds + k : k \in 0..MaxExpiredSeconds} :
            /\ now < t
            /\ Tick(t - now)

SpecDeactivate == InitCache /\ [][NextDeactivate]_vars

----------------------------------------------------------------------------
(* The catalog specification: the owner publishes, hides and links videos,  *)
(* the viewer tenant reports progress; the portal aggregator is             *)
(* read in every state.                                                     *)

\* What the owner's video form submits
CatalogForms ==
    [ series : {NULL} \cup SeriesIds,
      category : {CATEGORY_MOVIE, CATEGORY_TV},
      blocked_tenants : {{}, {"beta"}},
      season_number : {NULL},
      episode_number : {NULL},
      genre : {""} ]

\* What the admin change form submits for video v: the row as stored, with
\* the public flag and the series (any Series row, active or not) as edited
AdminPublicForms(v) ==
    { [videos[v] EXCEPT !.is_public = b, !.series = s] :
        b \in BOOLEAN, s \in {videos[v].series} \cup DOMAIN series }

NextCatalog ==
    \/ \E f \in CatalogForms : OwnerCreateVideo("alpha", f)
    \/ \E v \in DOMAIN videos, f \in CatalogForms : OwnerEditVideo("alpha", v, f)
    \/ \E v \in DOMAIN videos : \E f \in AdminPublicForms(v) : AdminSaveVideo(v, f)
    \/ \E a \in BOOLEAN : OwnerCreateSeries("alpha", 1, a)
    \/ \E v \in DOMAIN videos :
            /\ ProgressRows("beta", v) # {} \/ nextProgressId <= MaxProgressRows
            /\ VideoProgressPost("beta", "beta", v, 5)

SpecCatalog == Init /\ [][NextCatalog]_vars

----------------------------------------------------------------------------
(* The write-path specification: every path that stores a Video or a Series *)
(* row (owner dashboard, owner edit form, admin, create_tenant command).    *)

WriteForms ==
    [ series : {NULL} \cup SeriesIds,
      category : Categories,
      blocked_tenants : {{}},
      season_number : {NULL},
      episode_number : {NULL},
      genre : {""} ]

\* What the admin change form submits for video v: the row as stored, with
\* the series and the category as edited
AdminLinkForms(v) ==
    { [videos[v] EXCEPT !.series = s, !.category = c] :
        s \in {NULL} \cup SeriesIds, c \in Categories }

NextWrite ==
    \/ \E f \in WriteForms : OwnerCreateVideo("alpha", f)
    \/ \E v \in DOMAIN videos, f \in WriteForms : OwnerEditVideo("alpha", v, f)
    \/ \E v \in DOMAIN videos : OwnerDeleteVideo("alpha", v)
    \/ \E v \in DOMAIN videos : \E f \in AdminLinkForms(v) : AdminSaveVideo(v, f)
    \/ \E sample \in BOOLEAN : CreateTenantCommand("gamma", sample, "sample")
    \/ \E a \in BOOLEAN : OwnerCreateSeries("alpha", 1, a)

SpecWrite == Init /\ [][NextWrite]_vars

----------------------------------------------------------------------------
(* Properties of the catalog and of the write paths *)

\* The eligible set of the specification: public and visible to the tenant;
\* without a tenant, public with an empty blocklist.
Eligible(T) ==
    IF T # NoTenant
    THEN {v \in DOMAIN videos : videos[v].is_public /\ IsVisibleTo(v, T)}
    ELSE {v \in DOMAIN videos : videos[v].is_public /\ videos[v].blocked_tenants = {}}

Viewers == DOMAIN tenants \cup {NoTenant}

C2_PortalListsOwnVideosOnly ==
    \A T \in DOMAIN tenants :
        PayloadVideos(BuildPortalPayload(T)) = {v \in DOMAIN videos : videos[v].tenant = T}

\* C9: every stored Video with a series has the series category.
C9_SeriesImpliesSeriesCategory ==
    \A v \in DOMAIN videos :
        videos[v].series # NULL => videos[v].category = CATEGORY_SERIES

\* C10: the series list of a tenant holds exactly the active Series with an
\* eligible episode, the series payload has one entry per listed series, and
\* every episode entry is an eligible episode of its (active) series.
C10_ActiveSeriesOnly ==
    \A T \in DOMAIN tenants :
        LET P == BuildPortalPayload(T)
        IN  /\ Range(P.series_list) =
                    {s \in DOMAIN series :
                        series[s].is_active /\ \E v \in Eligible(T) : videos[v].series = s}
            /\ Len(P.series_payload) = Len(P.series_list)
            /\ \A i \in 1..Len(P.series_payload) :
                    /\ P.series_payload[i].series = P.series_list[i]
                    /\ {P.series_payload[i].episodes[j].video :
                            j \in 1..Len(P.series_payload[i].episodes)} =
                       {v \in Eligible(T) : videos[v].series = P.series_list[i]}

\* An inactive series has an episode the tenant is eligible for (and one it
\* is not), and the tenant's series list is empty.
C10_Witness ==
    \E s \in DOMAIN series : \E v1, v2 \in DOMAIN videos :
        /\ ~series[s].is_active
        /\ videos[v1].series = s /\ v1 \in Eligible("beta")
        /\ videos[v2].series = s /\ v2 \notin Eligible("beta")
        /\ BuildPortalPayload("beta").series_list = <<>>

----------------------------------------------------------------------------
(* Properties of the portal cache *)

PayloadKeys ==
    {"progress_map", "continue_videos", "continue_movies", "continue_series", "continue_tv",
     "series_list", "series_payload", "tv_channels", "movie_videos", "videos_by_genre"}

\* A read of the cache by request r in this step
Reads(r) == pc[r] = "idle" /\ pc'[r] # "idle"

\* Entry e was stored at or before the present and has not reached its expiry
Alive(e) == e # NoEntry /\ e.expires - CACHE_TIMEOUT <= now /\ now < e.expires

\* C3 (as claimed): a payload stored at t0 is what every read at t0 <= t < t0 + 900
\* returns, without a rebuild; this covers a payload that another request's
\* cache.set has replaced in the meantime. The first read after the expiry
\* rebuilds and stores the new payload for another 900 s.
C3_StoredPayloadServedForTtl ==
    [][\A r \in Requests :
        /\ Reads(r) =>
            LET k == req'[r].cache_key
            IN  /\ \A e \in {cache[k], replaced[k]} :
                        Alive(e) => pc'[r] = "done" /\ req'[r].payload = e.payload
                /\ (cache[k] # NoEntry /\ now > cache[k].expires) => pc'[r] = "build"
        /\ (pc[r] = "build" /\ pc'[r] = "set") =>
                req'[r].payload = BuildPortalPayload(req[r].tenant)
        /\ (pc[r] = "set" /\ pc'[r] = "done") =>
                cache'[req[r].cache_key] =
                    [payload |-> req[r].payload, expires |-> now + CACHE_TIMEOUT]
      ]_vars

\* C3 (amended): every read at a time t with t0 <= t < t0 + 900, t0 the time of
\* the latest cache.set for the key, returns the payload of that latest set,
\* unmodified and without a rebuild or a cache write; the first read after the
\* expiry (or with no entry) rebuilds with the aggregator and stores the new
\* payload with expiry now + 900.
C3_LatestStoredPayloadServedForTtl ==
    [][\A r \in Requests :
        /\ Reads(r) =>
            LET k == req'[r].cache_key
            IN  /\ Alive(cache[k]) =>
                        /\ pc'[r] = "done"
                        /\ req'[r].payload = cache[k].payload
                        /\ cache' = cache
                /\ (cache[k] = NoEntry \/ now > cache[k].expires) => pc'[r] = "build"
        /\ (pc[r] = "build" /\ pc'[r] = "set") =>
                req'[r].payload = BuildPortalPayload(req[r].tenant)
        /\ (pc[r] = "set" /\ pc'[r] = "done") =>
                cache'[req[r].cache_key] =
                    [payload |-> req[r].payload, expires |-> now + CACHE_TIMEOUT]
      ]_vars

\* A read just before the expiry is served from the cache, after a concurrent
\* request had replaced the entry first stored, and while the catalog has
\* changed since.
C3_Witness ==
    \E r \in Requests :
        /\ pc[r] = "done" /\ req[r].hit
        /\ req[r].t = CACHE_TIMEOUT - 1
        /\ replaced[req[r].cache_key] # NoEntry
        /\ req[r].payload # BuildPortalPayload(req[r].tenant)

\* The database rows a payload is computed from
Data == <<tenants, videos, series, progress>>

\* C4: a step that changes the catalog or the progress records changes no
\* cache entry and no answer of cache.get.
C4_WritesLeaveCacheAlone ==
    [][Data' # Data =>
        /\ cache' = cache
        /\ \A k \in CacheKeys : CacheGet(k)' = CacheGet(k)
      ]_vars

\* The tenant is served, within the TTL, a payload that no longer matches the
\* catalog: the video it lists has been deleted.
C4_Witness ==
    /\ pc["r1"] = "done" /\ req["r1"].hit
    /\ hist["r1"].staleAt # -1
    /\ req["r1"].payload.series_list # <<>>
    /\ DOMAIN videos = {}
    /\ DOMAIN series = {}

\* C5: every request that missed returns a complete payload of its own build;
\* the cache entry of a key is the payload of the request whose cache.set came
\* last; and the payloads built since the last change of the data are equal.
C5_LastWriteWins ==
    /\ \A r \in Requests :
            (pc[r] \in {"set", "done"} /\ ~req[r].hit) => DOMAIN req[r].payload = PayloadKeys
    /\ \A k \in CacheKeys :
            lastWrite[k] # "none" =>
                /\ pc[lastWrite[k]] = "done"
                /\ cache[k].payload = req[lastWrite[k]].payload
    /\ \A r1, r2 \in Requests :
            ( /\ pc[r1] \in {"set", "done"} /\ ~req[r1].hit /\ hist[r1].staleAt = -1
              /\ pc[r2] \in {"set", "done"} /\ ~req[r2].hit /\ hist[r2].staleAt = -1
              /\ req[r1].cache_key = req[r2].cache_key )
            => req[r1].payload = req[r2].payload

\* Two requests missed together, built different payloads (the blocklist
\* changed in between) and both have written the cache.
C5_Witness ==
    \E r1, r2 \in Requests :
        /\ pc[r1] = "done" /\ ~req[r1].hit
        /\ pc[r2] = "done" /\ ~req[r2].hit
        /\ req[r1].cache_key = req[r2].cache_key
        /\ req[r1].payload # req[r2].payload
        /\ lastWrite[req[r1].cache_key] = r2
        /\ hist[r1].builtAt = hist[r2].builtAt

\* C6 (as claimed): the data a returned payload was computed from was still
\* current less than 900 s before the return.
C6_StalenessWithinTtl ==
    \A r \in Requests :
        pc[r] = "done" =>
            hist[r].staleAt = -1 \/ hist[r].staleAt >= req[r].t - CACHE_TIMEOUT

\* C6 (amended): a payload returned at time t was stored in the cache at a time
\* tw with t - 900 < tw <= t, by a request that had built it at a time tb <= tw
\* from the data current at tb: its staleness is bounded by the TTL plus the
\* time the storing request took from its build to its cache.set.
C6_StalenessWithinTtlOfStore ==
    \A r \in Requests :
        pc[r] = "done" =>
            /\ 0 <= hist[r].builtAt
            /\ hist[r].builtAt <= hist[r].storedAt
            /\ hist[r].storedAt <= req[r].t
            /\ req[r].t < hist[r].storedAt + CACHE_TIMEOUT
            /\ hist[r].staleAt = -1 \/ hist[r].staleAt >= hist[r].builtAt

\* A payload is served from the cache 899 s after it was stored, out of date
\* since the moment it was built.
C6_Witness ==
    \E r \in Requests :
        /\ pc[r] = "done" /\ req[r].hit
        /\ hist[r].staleAt = hist[r].builtAt
        /\ hist[r].storedAt = hist[r].builtAt
        /\ req[r].t = hist[r].storedAt + CACHE_TIMEOUT - 1

----------------------------------------------------------------------------
(* Properties of the continue-watching lists *)

\* The tenant's progress records with position > 0 on eligible videos
Started(T) ==
    {r \in progress : r.tenant = T /\ r.position > 0 /\ r.video \in Eligible(T)}

\* The place of x in a sequence without repetitions
IndexOf(s, x) == CHOOSE i \in 1..Len(s) : s[i] = x

\* sub lists exactly the members of S, in the order they have in s
KeepsOrderOf(sub, s, S) ==
    /\ Range(sub) = S
    /\ \A i, j \in 1..Len(sub) : i < j => IndexOf(s, sub[i]) < IndexOf(s, sub[j])

\* C7: continue_videos lists min(20, n) distinct videos of the n started
\* records, most recently updated first, no record left out being more recent
\* than a listed one; and the three sub-lists draw from continue_videos only.
C7_ContinueCappedBeforeSplit ==
    \A T \in DOMAIN tenants :
        LET P == BuildPortalPayload(T)
            cv == P.continue_videos
            started == Started(T)
            n == Cardinality(started)
            at == [v \in {r.video : r \in started} |->
                        (CHOOSE r \in started : r.video = v).updated_at]
        IN  /\ Len(cv) = IF n < 20 THEN n ELSE 20
            /\ Range(cv) \subseteq DOMAIN at
            /\ Cardinality(Range(cv)) = Len(cv)
            /\ \A i, j \in 1..Len(cv) : i < j => at[cv[i]] >= at[cv[j]]
            /\ \A v \in DOMAIN at \ Range(cv) : \A i \in 1..Len(cv) : at[cv[i]] >= at[v]
            /\ Range(P.continue_movies) \cup Range(P.continue_series) \cup Range(P.continue_tv)
                    \subseteq Range(cv)

\* More than 20 records are started; an episode and a TV channel among them
\* rank below the 20th and are in no continue list.
C7_Witness ==
    LET P == BuildPortalPayload("beta")
        out == {r.video : r \in Started("beta")} \ Range(P.continue_videos)
    IN  /\ Cardinality(Started("beta")) > 20
        /\ Len(P.continue_videos) = 20
        /\ \E v \in out : videos[v].series # NULL /\ videos[v].category = CATEGORY_SERIES
        /\ \E v \in out : videos[v].series = NULL /\ videos[v].category = CATEGORY_TV

\* C8: continue_movies is the standalone movies of continue_videos,
\* continue_series its videos with a series link, continue_tv its videos of
\* category tv, each in the order of continue_videos.
C8_ContinueSplitByCategory ==
    \A T \in DOMAIN tenants :
        LET P == BuildPortalPayload(T)
            cv == P.continue_videos
        IN  /\ KeepsOrderOf(P.continue_movies, cv,
                    {v \in Range(cv) : videos[v].series = NULL /\ videos[v].category = CATEGORY_MOVIE})
            /\ KeepsOrderOf(P.continue_series, cv,
                    {v \in Range(cv) : videos[v].series # NULL})
            /\ KeepsOrderOf(P.continue_tv, cv,
                    {v \in Range(cv) : videos[v].category = CATEGORY_TV})
            /\ Len(P.continue_movies) + Len(P.continue_series) + Len(P.continue_tv)
                    = Cardinality({v \in Range(cv) :
                                    videos[v].series = NULL /\ videos[v].category = CATEGORY_MOVIE})
                      + Cardinality({v \in Range(cv) : videos[v].series # NULL})
                      + Cardinality({v \in Range(cv) : videos[v].category = CATEGORY_TV})

\* The capped list is full and mixes every kind of video, a series-linked TV
\* channel and an unlinked video of category series included, the most recent
\* one not being the one with the highest id.
C8_Witness ==
    LET P == BuildPortalPayload("beta")
        cv == P.continue_videos
    IN  /\ Len(cv) = 20
        /\ cv[1] = 1
        /\ Len(P.continue_movies) > 1 /\ Len(P.continue_series) > 1 /\ Len(P.continue_tv) > 1
        /\ \E v \in Range(cv) : videos[v].series # NULL /\ videos[v].category = CATEGORY_TV
        /\ \E v \in Range(cv) : videos[v].series = NULL /\ videos[v].category = CATEGORY_SERIES

----------------------------------------------------------------------------
(* Properties of the series entries *)

\* The episode lists of the series entries in the payload of tenant T
EpisodeLists(T) ==
    LET sp == BuildPortalPayload(T).series_payload
    IN  {sp[i].episodes : i \in 1..Len(sp)}

\* C11: in every series entry, an episode stored without a season number is
\* reported with season 1, and an episode stored without an episode number is
\* reported with its place (counted from 1) in the entry's episode list.
C11_EpisodeDefaults ==
    \A T \in DOMAIN tenants : \A eps \in EpisodeLists(T) : \A j \in 1..Len(eps) :
        /\ videos[eps[j].video].season_number = NULL => eps[j].season_number = 1
        /\ videos[eps[j].video].episode_number = NULL => eps[j].episode_number = j

\* An unnumbered episode stands third in its series for one tenant (reported
\* as season 1, episode 3) and second for the tenant the first is hidden from.
C11_Witness ==
    \E a \in EpisodeLists("alpha"), b \in EpisodeLists("beta") :
        /\ Len(a) >= 3 /\ Len(b) >= 2
        /\ a[3].video = b[2].video
        /\ videos[a[3].video].season_number = NULL
        /\ videos[a[3].video].episode_number = NULL
        /\ a[3].season_number = 1 /\ a[3].episode_number = 3
        /\ b[2].season_number = 1 /\ b[2].episode_number = 2

\* C12: along every episode list the reported (season, episode) pairs never
\* decrease, and episodes with equal reported pairs are in order of creation.
C12_EpisodesAscending ==
    \A T \in DOMAIN tenants : \A eps \in EpisodeLists(T) : \A i, j \in 1..Len(eps) :
        i < j =>
            /\ LexLeq(<<eps[i].season_number, eps[i].episode_number>>,
                      <<eps[j].season_number, eps[j].episode_number>>)
            /\ ( /\ eps[i].season_number = eps[j].season_number
                 /\ eps[i].episode_number = eps[j].episode_number )
               => videos[eps[i].video].created_at <= videos[eps[j].video].created_at

----------------------------------------------------------------------------
(* Properties of the progress records *)

RowIds(rows) == {row.id : row \in rows}

\* C13: in every reachable state, under every interleaving of the queries of
\* concurrent progress POSTs and resets, a (tenant, video) pair has at most one
\* Progress record; no step adds a record to a pair that has one, and a POST
\* that is answered 200 has written its position into the one record of its pair.
C13_OneRecordPerPair ==
    /\ [](\A t \in DOMAIN tenants, v \in DOMAIN videos : Cardinality(ProgressRows(t, v)) <= 1)
    /\ [][ /\ \A t \in DOMAIN tenants, v \in DOMAIN videos :
                ProgressRows(t, v) # {} =>
                    RowIds(ProgressRows(t, v)') \subseteq RowIds(ProgressRows(t, v))
           /\ \A r \in Requests :
                (pc[r] = "post_save" /\ req'[r].status = "200") =>
                    \E row \in ProgressRows(req[r].tenant, req[r].video) :
                        ProgressRows(req[r].tenant, req[r].video)' =
                            {[row EXCEPT !.position = req[r].position, !.updated_at = now]}
         ]_vars

\* Two devices posted for the same pair, both found no record, one inserted it
\* and the other ran into the unique constraint: the pair has one record.
C13_Witness ==
    /\ pc["r1"] = "post_reget" /\ pc["r2"] = "post_save"
    /\ req["r1"].tenant = req["r2"].tenant /\ req["r1"].video = req["r2"].video
    /\ Cardinality(ProgressRows(req["r1"].tenant, req["r1"].video)) = 1

\* C14: every stored position is >= 0 in every reachable state, and a progress
\* POST answered 200 whose payload carries the number p has stored max(0, p):
\* 0 for a negative p.
C14_PositionsNonNegative ==
    /\ [](\A row \in progress : row.position >= 0)
    /\ [][ \A r \in Requests :
            (pc[r] = "post_save" /\ req'[r].status = "200" /\ req[r].body.kind = "number") =>
                \E row \in progress' :
                    /\ row.id = req[r].row
                    /\ row.position = IF req[r].body.value < 0 THEN 0 ELSE req[r].body.value
         ]_vars

\* A device posted position -10, was answered 200, and the record holds 0.
C14_Witness ==
    \E r \in Requests :
        /\ pc[r] = "replied" /\ req[r].kind = "progress" /\ req[r].status = "200"
        /\ req[r].body.kind = "number" /\ req[r].body.value = -10
        /\ \E row \in progress : row.id = req[r].row /\ row.position = 0

\* A payload without a numeric position: invalid JSON, a JSON document that
\* is no object, or a position that is missing, null or not a number
Malformed(body) == body.shape \in {"invalid", "nonobject"} \/ body.kind # "number"

\* C15: a progress POST that passes the tenant and visibility checks is never
\* rejected for its payload: whenever a POST with a malformed payload is
\* answered, the answer is 200 and the record of its pair holds position 0.
C15_MalformedPayloadStoresZero ==
    [][ \A r \in Requests :
            ( /\ pc[r] # "replied" /\ pc'[r] = "replied"
              /\ req'[r].kind = "progress"
              /\ Malformed(req'[r].body) ) =>
                /\ req'[r].status = "200"
                /\ \E row \in progress' :
                        /\ row.tenant = req'[r].tenant /\ row.video = req'[r].video
                        /\ row.position = 0
      ]_vars

\* The progress rows of every pair but (t, v)
OtherRows(rows, t, v) == {row \in rows : row.tenant # t \/ row.video # v}

\* C18: a reset by a subscriber for a video it may see succeeds whether or not
\* the pair has a record; after it the pair (T, V) has no record, the records
\* of every other pair are as they were, and with no record to delete nothing
\* changes.
C18_ResetDeletesOnlyItsPair ==
    [][ \A r \in Requests :
            (pc[r] = "idle" /\ pc'[r] = "replied" /\ req'[r].kind = "reset") =>
                LET T == req'[r].tenant
                    V == req'[r].video
                IN  /\ req'[r].status = "302:portal"
                    /\ {row \in progress' : row.tenant = T /\ row.video = V} = {}
                    /\ OtherRows(progress', T, V) = OtherRows(progress, T, V)
                    /\ ProgressRows(T, V) = {} => progress' = progress
      ]_vars

\* A reset has been answered; the record of its pair (the first ever created)
\* is gone while the same tenant's record for the other video is still there.
C18_Witness ==
    \E r \in Requests :
        /\ pc[r] = "replied" /\ req[r].kind = "reset" /\ req[r].status = "302:portal"
        /\ nextProgressId = 3
        /\ \E row \in progress :
            /\ progress = {row}
            /\ row.id = 2 /\ row.tenant = req[r].tenant /\ row.video # req[r].video
            /\ row.position = 5

----------------------------------------------------------------------------
(* Properties of the access checks *)

\* The tenants a URL slug names, resolvable or not
TenantsOfSlug(slug) == {t \in DOMAIN tenants : tenants[t].slug = slug}

\* The subscription of tenant t has run out
Expired(t) == tenants[t].access_end_date # NULL /\ tenants[t].access_end_date < now

\* Slot r takes a request of one of the kinds in this step
Arrives(r, kinds) == pc[r] = "idle" /\ pc'[r] # "idle" /\ req'[r].kind \in kinds

\* C16 as stated: a progress POST addressed to tenant T (active, its
\* subscription running) by a logged-in caller whose tenant is not T, or who
\* has no tenant, is answered 403 and leaves every Progress record unchanged.
C16_MismatchForbidden ==
    [][ \A r \in Requests :
            ( /\ Arrives(r, {"progress"})
              /\ req'[r].user # AnonymousUser
              /\ \E T \in TenantsOfSlug(req'[r].slug) : tenants[T].is_active /\ ~Expired(T)
              /\ req'[r].user \notin TenantsOfSlug(req'[r].slug) ) =>
                /\ pc'[r] = "replied" /\ req'[r].status = "403"
                /\ progress' = progress
      ]_vars

\* C16, amended: such a POST is never accepted and leaves every Progress record
\* unchanged; it is answered 403 when T is active with a running subscription
\* and the caller is not held back by the subscription check, 404 when T is
\* inactive or expired, and with the redirect to subscription-expired when the
\* caller's own subscription has run out.  No step creates, changes or deletes
\* a record of a tenant other than the caller's.
C16_MismatchNeverAccepted ==
    [][ /\ \A r \in Requests :
            ( /\ Arrives(r, {"progress"})
              /\ req'[r].user # AnonymousUser
              /\ TenantsOfSlug(req'[r].slug) # {}
              /\ req'[r].user \notin TenantsOfSlug(req'[r].slug) ) =>
                /\ pc'[r] = "replied"
                /\ progress' = progress
                /\ req'[r].status =
                     IF req'[r].user # NoTenant /\ Expired(req'[r].user)
                     THEN "302:subscription-expired"
                     ELSE IF \E T \in TenantsOfSlug(req'[r].slug) :
                                tenants[T].is_active /\ ~Expired(T)
                     THEN "403"
                     ELSE "404"
        /\ \A T \in DOMAIN tenants :
            {row \in progress' : row.tenant = T} # {row \in progress : row.tenant = T} =>
                \E r \in Requests : pc'[r] # "idle" /\ pc'[r] # pc[r] /\ req'[r].user = T
      ]_vars

\* The subscriber posted progress to the owner's URL and was answered 403; the
\* owner's record is as it was.
C16_Witness ==
    /\ pc["r1"] = "replied" /\ req["r1"].kind = "progress"
    /\ req["r1"].user = "beta" /\ req["r1"].slug = "alpha" /\ req["r1"].status = "403"
    /\ progress = {[id |-> 1, tenant |-> "alpha", video |-> 1, position |-> 5, updated_at |-> 0]}

\* The videos a request names: by primary key on the TV endpoint, by slug elsewhere
NamedVideos(q) ==
    IF q.kind = "tv"
    THEN {v \in DOMAIN videos : ToString(v) = q.video_slug}
    ELSE {v \in DOMAIN videos : VideoSlug(v) = q.video_slug}

\* C17: on watch, progress POST, reset and the TV channel endpoint, a request
\* by tenant T (active, its subscription running) that names a video, every
\* video it names having T on its blocklist at that time, is answered 404,
\* changes no Progress record and fetches nothing upstream.
C17_BlockedVideoNotFound ==
    [][ \A r \in Requests :
            ( /\ Arrives(r, {"watch", "progress", "reset", "tv"})
              /\ req'[r].user \in DOMAIN tenants
              /\ tenants[req'[r].user].is_active /\ ~Expired(req'[r].user)
              /\ req'[r].kind \in {"watch", "progress"} =>
                    req'[r].slug = tenants[req'[r].user].slug
              /\ NamedVideos(req'[r]) # {}
              /\ \A v \in NamedVideos(req'[r]) : req'[r].user \in videos[v].blocked_tenants ) =>
                /\ pc'[r] = "replied" /\ req'[r].status = "404"
                /\ progress' = progress
                /\ ~req'[r].fetched
      ]_vars

\* C19: get_tenant_from_slug(slug) returns a tenant iff a tenant with that slug
\* exists, is active and has no end date or an end date >= now, and then it is
\* that tenant; a request to a slug-addressed endpoint (tenant home, watch,
\* progress POST) for a tenant whose end date has passed is never served: it
\* is refused with 404, unless the caller is turned away before the lookup
\* (to the login page, or to subscription-expired), and writes nothing.
C19_SlugResolvesValidTenantOnly ==
    /\ [](\A slug \in UrlSlugs :
            LET valid == {t \in DOMAIN tenants :
                            /\ tenants[t].slug = slug
                            /\ tenants[t].is_active
                            /\ \/ tenants[t].access_end_date = NULL
                               \/ tenants[t].access_end_date >= now}
            IN  IF valid = {} THEN GetTenantFromSlug(slug) = NoTenant
                ELSE GetTenantFromSlug(slug) \in valid)
    /\ [][ \A r \in Requests :
            ( /\ Arrives(r, {"home", "watch", "progress"})
              /\ \E t \in TenantsOfSlug(req'[r].slug) : Expired(t) ) =>
                /\ pc'[r] = "replied"
                /\ progress' = progress
                /\ req'[r].status \in {"404", "302:login", "302:subscription-expired"}
                /\ req'[r].status = "302:login" =>
                        req'[r].user = AnonymousUser /\ req'[r].kind = "progress"
                /\ req'[r].status = "302:subscription-expired" =>
                        req'[r].user \in DOMAIN tenants /\ Expired(req'[r].user)
         ]_vars

\* The subscriber's tenant is active but its end date has passed, and a
\* visitor who is not logged in asked for its watch page: 404.
C19_Witness ==
    /\ tenants["beta"].is_active /\ Expired("beta")
    /\ GetTenantFromSlug("beta") = NoTenant
    /\ pc["r1"] = "replied" /\ req["r1"].kind = "watch"
    /\ req["r1"].user = AnonymousUser /\ req["r1"].slug = "beta"
    /\ req["r1"].status = "404"

\* Every kind of request of the access specification
RequestKinds == {"progress", "reset", "watch", "tv", "home", "page"}

\* C20: a request by a logged-in user whose tenant's subscription has run out,
\* to a path other than /login/, /logout/, /support/ and /subscription-expired/,
\* is redirected to subscription-expired and its view does not run (nothing is
\* written, nothing fetched); nobody else is redirected there: not a visitor
\* who is not logged in, not a user without tenant, not a tenant whose
\* subscription runs, and not an expired one on the four paths.
C20_ExpiredSubscriptionRedirected ==
    [][ \A r \in Requests :
            Arrives(r, RequestKinds) =>
                LET q == req'[r]
                    expired == q.user \in DOMAIN tenants /\ Expired(q.user)
                    exempt == q.path \in {"/login/", "/logout/", "/support/",
                                          "/subscription-expired/"}
                IN  /\ (expired /\ ~exempt) =>
                            /\ pc'[r] = "replied"
                            /\ q.status = "302:subscription-expired"
                            /\ ~q.fetched
                            /\ <<tenants, videos, series, progress>>' =
                                    <<tenants, videos, series, progress>>
                    /\ q.status = "302:subscription-expired" => (expired /\ ~exempt)
      ]_vars

\* The subscriber stored progress while its subscription ran; after the end
\* date it asked for a reset and was redirected: the record is still there.
C20_Witness ==
    /\ Expired("beta")
    /\ pc["r1"] = "replied" /\ req["r1"].kind = "reset" /\ req["r1"].user = "beta"
    /\ req["r1"].status = "302:subscription-expired"
    /\ \E row \in progress : row.tenant = "beta" /\ row.video = 1 /\ row.position = 10

----------------------------------------------------------------------------
(* Properties of the remote stream resolution *)

\* C21: one Drive resolution issues at most two upstream requests; the second
\* is issued iff the first was answered 200 with a confirmation token (the
\* download_warning cookie's, else the body's) and carries that token as its
\* confirm parameter; its response is final whatever its status, and a first
\* response that is not 200 ends the resolution at once.
C21_DriveHandshake ==
    /\ [](\A r \in Requests :
            (pc[r] # "idle" /\ req[r].kind = "drive") =>
                /\ Len(req[r].upstream) <= 2
                /\ pc[r] = "drive_first" => Len(req[r].upstream) = 1
                /\ pc[r] = "drive_second" =>
                    LET first == req[r].response
                        token == IF first.cookie \notin {"absent", ""}
                                 THEN first.cookie ELSE first.body_token
                    IN  /\ first.status = 200 /\ token # ""
                        /\ Len(req[r].upstream) = 2
                        /\ req[r].upstream[1].confirm = ""
                        /\ req[r].upstream[2].confirm = token)
    /\ [][ \A r \in Requests :
            /\ (pc[r] = "drive_first" /\ pc'[r] = "replied" /\ req'[r].status # "500") =>
                    /\ Len(req'[r].upstream) = 1
                    /\ \/ req'[r].response.status # 200
                       \/ /\ req'[r].response.cookie \in {"absent", ""}
                          /\ req'[r].response.body_token = ""
            /\ (pc[r] = "drive_second" /\ pc'[r] # "drive_second") =>
                    /\ pc'[r] = "replied"
                    /\ req'[r].upstream = req[r].upstream
                    /\ req'[r].status # "500" =>
                            req'[r].status = IF req'[r].response.status = 200
                                             THEN "200" ELSE "404"
         ]_vars

\* The first response was 200 with a token in the body only; the second
\* request carried that token and its 404 was final: two requests, no third.
C21_Witness ==
    /\ pc["r1"] = "replied" /\ req["r1"].kind = "drive" /\ req["r1"].status = "404"
    /\ Len(req["r1"].upstream) = 2
    /\ req["r1"].upstream[2].confirm = "b1"
    /\ req["r1"].response.status = 404

\* C22: for a visible public TV video the endpoint makes exactly one upstream
\* fetch and answers 502 on a network error, a timeout or a status other than
\* 200, 404 on a 200 page without an adaptive-stream URL, and the URL on a 200
\* page with one (as on <video src="https://host/live/playlist.m3u8">).
C22_TvOutcomeMapping ==
    /\ [](\A r \in Requests :
            (pc[r] # "idle" /\ req[r].kind = "tv" /\ req[r].fetched) =>
                Len(req[r].upstream) = 1)
    /\ [][ \A r \in Requests :
            (pc[r] = "tv_fetch" /\ pc'[r] # "tv_fetch") =>
                LET answer == req'[r].response
                IN  /\ pc'[r] = "replied"
                    /\ req'[r].upstream = req[r].upstream
                    /\ req'[r].status =
                        IF answer.status # 200 THEN "502"
                        ELSE IF answer.html = PageWithoutLink THEN "404"
                        ELSE "200"
                    /\ (answer.status = 200 /\ answer.html = PageWithLink) =>
                            req'[r].url = SchemeHttps \o HostPath \o <<".">> \o ExtM3u8
         ]_vars

\* C23: every remote stream resolution (Drive stream and TV channel page)
\* terminates even when the upstream never answers, because no upstream
\* request is issued without a timeout.
C23_ResolutionTerminates ==
    \A r \in Requests :
        (pc[r] \in {"drive_first", "drive_second", "tv_fetch"}) ~> (pc[r] = "replied")

\* An http(s) URL that ends in .m3u8, a query string allowed after it: the
\* characters of a URL in a page are those up to a quote, a blank, < or >
StreamUrlChar(c) == c \notin {"\"", "'", " ", "<", ">"}

RECURSIVE StreamUrlRunEnd(_, _)
StreamUrlRunEnd(text, i) ==
    IF i <= Len(text) /\ StreamUrlChar(text[i]) THEN StreamUrlRunEnd(text, i + 1) ELSE i

\* The position after the stream URL that starts at i, or 0
StreamUrlEnd(text, i) ==
    LET k == AfterScheme(text, i)
        e == StreamUrlRunEnd(text, k)
    IN  IF k = 0 THEN 0
        ELSE IF \E j \in (k + 1)..(e - 5) : LitAt(text, j, <<".", "m", "3", "u", "8">>)
        THEN e ELSE 0

FirstStreamUrl(text) ==
    LET starts == {i \in 1..Len(text) : StreamUrlEnd(text, i) # 0}
    IN  IF starts = {} THEN << >>
        ELSE LET i == CHOOSE i \in starts : \A j \in starts : i <= j
             IN  SubSeq(text, i, StreamUrlEnd(text, i) - 1)

\* C24: the extraction returns the first http(s) URL of the body that ends in
\* .m3u8 (a query string may follow) whenever the body holds one, and reports
\* not-found only when the body holds none.
C24_ExtractsFirstStreamUrl ==
    \A r \in Requests :
        (pc[r] = "replied" /\ req[r].kind = "extract") =>
            req[r].url = FirstStreamUrl(req[r].html)

\* C25: a payload served from the portal cache was built for the caller's own
\* identity, whatever the tenants' slugs are ("anonymous" included): over data
\* that does not change, what a caller is served is the payload of its own
\* build, never the one of another tenant or of the no-tenant context.
C25_PayloadBuiltForCaller ==
    \A r \in Requests :
        pc[r] = "done" => req[r].payload = BuildPortalPayload(req[r].tenant)

\* C26: in every built payload continue_movies, continue_series and
\* continue_tv are pairwise disjoint and their union is continue_videos: each
\* video of the capped list is in exactly one of the three, whatever its
\* series link and stored category.
C26_ContinuePartition ==
    \A T \in DOMAIN tenants :
        LET P == BuildPortalPayload(T)
            movies == Range(P.continue_movies)
            episodes == Range(P.continue_series)
            channels == Range(P.continue_tv)
        IN  /\ movies \cap episodes = {}
            /\ movies \cap channels = {}
            /\ episodes \cap channels = {}
            /\ movies \cup episodes \cup channels = Range(P.continue_videos)

\* C27: a progress POST that has passed the tenant and visibility checks
\* completes successfully and, when its write commits, leaves a record of its
\* (tenant, video) pair that holds its clamped position, whatever reset or
\* other POST of the pair runs between its get-or-create and its save.
C27_PostAlwaysCommits ==
    [][ \A r \in Requests :
            (pc[r] \in {"post_get", "post_create", "post_reget", "post_save"}
                /\ pc'[r] = "replied") =>
                /\ req'[r].status = "200"
                /\ \E row \in progress' :
                        /\ row.tenant = req[r].tenant
                        /\ row.video = req[r].video
                        /\ row.position = req[r].position
      ]_vars

\* The videos a payload lists as a movie, as a TV channel or as an episode of
\* one of its series
ListedVideos(P) ==
    Range(P.movie_videos) \cup Range(P.tv_channels)
    \cup UNION {{P.series_payload[i].episodes[j].video :
                    j \in 1..Len(P.series_payload[i].episodes)} :
                i \in 1..Len(P.series_payload)}

\* C28: after any writes and deletions of videos and series, every video
\* eligible for a tenant is in the tenant's freshly built payload as a movie,
\* as a TV channel or as an episode of a listed series, unless it is linked to
\* an inactive series; the episodes of a deleted Series do not disappear.
C28_EligibleVideoListed ==
    \A T \in DOMAIN tenants :
        \A v \in Eligible(T) :
            (videos[v].series = NULL \/ series[videos[v].series].is_active) =>
                v \in ListedVideos(BuildPortalPayload(T))

\* C29: a tenant whose active flag is false is never served a portal payload:
\* every portal request that its user sends after the deactivation is refused,
\* whatever the end date of the subscription and whatever the cache holds.
C29_InactiveTenantRefused ==
    [][ \A r \in Requests :
            (pc[r] = "idle" /\ pc'[r] \in {"build", "done"} /\ req'[r].tenant # NoTenant) =>
                tenants[req'[r].tenant].is_active
      ]_vars

====
